---- MODULE Spec2Model ----
(***************************************************************************)
(* Model of the weather MCP server's session-managed protocol gateway      *)
(* (mcp/handler.ts with session management) and of the cached, de-         *)
(* duplicating upstream fetch wrapper (tools/shared/fetch.ts over the      *)
(* in-memory cache), of the bearer-token gate in front of the gateway and  *)
(* of the tool handlers behind it.                                         *)
(*                                                                         *)
(* Time is Date.now() in abstract units.  The JavaScript run-time is       *)
(* single threaded: every action below is one synchronous run of code      *)
(* between two suspension points (await).                                  *)
(***************************************************************************)
EXTENDS Integers, Sequences, FiniteSets, Bags, TLC

VARIABLES
    sessions,      \* Map<string, Session>: id -> [obj, lastAccessedAt]
    objs,          \* every McpServer/transport pair ever constructed
    uuidCount,     \* number of ids randomUUID() has handed out
    reqs,          \* the handleMcpRequest invocations suspended at an await (a bag)
    now,           \* Date.now()
    timerActive,   \* cleanupInterval is still scheduled
    lastOp,        \* what the last step did and what the client saw of it
    store,         \* InMemoryCache.store: url -> [value, expiresAt]
    inflight,      \* the in-flight ledger of fetch.ts: url -> request promise
    promises,      \* every request promise (one per physical upstream call)
    callers,       \* the cachedFetchJson invocations and where each stands
    mq,            \* the microtask queue: continuations ready to run, in order
    cacheOp,       \* the last direct call of a cache method and what it returned
    authOp,        \* the request the authentication gate decided last, and how
    tools          \* the tool handler invocations and where each stands

gatewayVars == <<sessions, objs, uuidCount, reqs, timerActive, lastOp>>
fetchVars == <<store, inflight, promises, callers, mq>>
cacheVars == <<cacheOp>>
authVars == <<authOp>>
toolVars == <<tools>>
vars == <<sessions, objs, uuidCount, reqs, now, timerActive, lastOp,
          store, inflight, promises, callers, mq, cacheOp, authOp, tools>>

\* ---------------------------------------------------------------- bounds
\* sessions ever created
MaxSessions == 2

\* ------------------------------------------------------------- constants
\* config.session.ttlMs, in model time units
SessionTtl == 1
INTERNAL_ERROR == -32603

\* the clock runs until a session created at time 0 can be idle strictly
\* longer than the TTL
MaxTime == SessionTtl + 1

\* the ids randomUUID() returns, in the order it returns them
UuidPool == <<"uuid-1", "uuid-2", "uuid-3", "uuid-4", "uuid-5", "uuid-6">>
\* req.headers["mcp-session-id"] when the header is absent
NoHeader == "<undefined>"
EmptyHeader == ""
BogusId == "bogus-id"

\* cachedFetchJson invocations
MaxCallers == 3

\* the clients; each has at most one request outstanding, so as many
\* handleMcpRequest invocations can be suspended at once as there are clients
Clients == {"a", "b"}
MaxInFlight == Cardinality(Clients)

\* req.method: the handler only tests req.method === "DELETE", so POST stands
\* for every other method (GET takes the same path)
Methods == {"POST", "DELETE"}
IssuedIds == {UuidPool[i] : i \in 1..uuidCount}
\* the header values a client can send: nothing, an empty value, an id the
\* server never issued, or an id the server has issued
Headers == {NoHeader, EmptyHeader, BogusId} \cup IssuedIds

\* JavaScript truthiness of a string | undefined
Truthy(s) == s # NoHeader /\ s # EmptyHeader

randomUUID_Fixed == UuidPool[1]

\* crypto.randomUUID(): an id never handed out before
randomUUID == UuidPool[uuidCount + 1]

MapSet(m, k, v) == [x \in DOMAIN m \cup {k} |-> IF x = k THEN v ELSE m[x]]
MapDelete(m, ks) == [x \in DOMAIN m \ ks |-> m[x]]

\* a suspended handleMcpRequest invocation: the await it is suspended at,
\* the session it resolved, and whether it created that session
Suspended(at, o, new) == [pc |-> at, obj |-> o, isNew |-> new]
Reqs == BagToSet(reqs)

\* the response object res of one request
NewRes == [headersSent |-> FALSE, status |-> 0, code |-> 0, message |-> "",
           writes |-> 0]

\* lastOp: op names the step; method and header are the request line of the
\* request that started in it; res is the response of the request that
\* finished in it; isNew tells whether that request created its session;
\* connectOn and handleOn name the pair whose server.connect and
\* transport.handleRequest the step called (0: none); closed is the set of
\* pairs whose transport.close the step called; timerWas is timerActive
\* before the step; threw tells that the request finished through the catch
\* block, transportWrote that the transport had started its response
Quiet == [op |-> "none", method |-> "", header |-> NoHeader, res |-> NewRes,
          isNew |-> FALSE, connectOn |-> 0, handleOn |-> 0, closed |-> {},
          timerWas |-> FALSE, threw |-> FALSE, transportWrote |-> FALSE]

\* ------------------------------------------------- fetch.ts and the cache
\* DEFAULT_TTL_MS of the cache, in model time units
DefaultTtl == 1

Callers == 1..MaxCallers
Urls == {"https://geo.example/search", "https://wx.example/forecast"}
\* new URL(url).host
Host(url) ==
    IF url = "https://geo.example/search" THEN "geo.example"
    ELSE IF url = "https://aq.example/air-quality" THEN "aq.example"
    ELSE "wx.example"
\* The upstream answers every physical call with a document of its own:
\* call number p gets document p.  cache.get's undefined is no document.
Undefined == 0
\* CachedFetchOptions: no ttlMs, or a ttlMs
NoTtl == [has |-> FALSE, ms |-> 0]
TtlOptions == {NoTtl} \cup {[has |-> TRUE, ms |-> t] : t \in {0, 2}}

\* a cachedFetchJson invocation: where it stands, its url, what cache.get
\* gave it, the request promise it awaits or returned, and how it ended
\* (kind "value" with the value, kind "error" with the rejected promise);
\* seen is the request for its url that had not settled when it was called
\* (0: none)
\* no request has been through the authentication gate in the last step
NoAuthOp == [decision |-> "none"]

\* no direct cache call since the clock last moved
NoCacheOp == [op |-> "none", key |-> "", value |-> Undefined, hit |-> FALSE,
              ttl |-> 0, prev |-> <<"none">>]

NewCaller == [pc |-> "idle", url |-> "", cached |-> Undefined, seen |-> 0,
              p |-> 0, kind |-> "", value |-> Undefined, err |-> 0]

\* the tool handler invocations that can be in progress at once (tool calls
\* of different sessions share the event loop)
ToolCalls == {1, 2}
NoError == [name |-> "", message |-> ""]
NoLocation == [name |-> ""]
\* a tool handler invocation: where it stands, the tool and its validated
\* argument, the location geocoding found, what was thrown inside the try
\* block (NoError: nothing) and the result the handler returned
NewToolCall == [pc |-> "idle", name |-> "", city |-> "", location |-> NoLocation,
                thrown |-> NoError, noMatch |-> FALSE,
                result |-> [content |-> << >>]]

Init ==
    /\ sessions = << >>
    /\ objs = << >>
    /\ uuidCount = 0
    /\ reqs = EmptyBag
    /\ now = 0
    /\ timerActive = TRUE
    /\ lastOp = Quiet
    /\ store = << >>
    /\ inflight = << >>
    /\ promises = << >>
    /\ callers = [c \in Callers |-> NewCaller]
    /\ mq = << >>
    /\ cacheOp = NoCacheOp
    /\ authOp = NoAuthOp
    /\ tools = [t \in ToolCalls |-> NewToolCall]

\* transport.close() on every pair in the set os
CloseTransports(os) ==
    [o \in DOMAIN objs |->
        IF o \in os THEN [objs[o] EXCEPT !.closeCalls = @ + 1] ELSE objs[o]]

IsStale_AtTtl(session, t) == t - session.lastAccessedAt >= SessionTtl

IsStale(session, t) == t - session.lastAccessedAt > SessionTtl

StaleSessions_None == {}

\* the ids the loop of cleanupStaleSessions closes and deletes
StaleSessions == {s \in DOMAIN sessions : IsStale(sessions[s], now)}

cleanupStaleSessions ==
    /\ timerActive
    /\ objs' = CloseTransports({sessions[s].obj : s \in StaleSessions})
    /\ sessions' = MapDelete(sessions, StaleSessions)
    /\ lastOp' = [Quiet EXCEPT !.op = "sweep", !.timerWas = timerActive,
                    !.closed = {sessions[s].obj : s \in StaleSessions}]
    /\ UNCHANGED <<uuidCount, reqs, now, timerActive>>
    /\ UNCHANGED fetchVars
    /\ UNCHANGED cacheVars
    /\ UNCHANGED toolVars
    /\ authOp' = NoAuthOp

\* Date.now() advances between two runs of code
Tick ==
    /\ now < MaxTime
    /\ now' = now + 1
    /\ lastOp' = Quiet
    /\ cacheOp' = NoCacheOp
    /\ authOp' = NoAuthOp
    /\ UNCHANGED <<sessions, objs, uuidCount, reqs, timerActive>>
    /\ UNCHANGED fetchVars
    /\ UNCHANGED toolVars

\* the ids the loop of closeAllSessions closes, and the ids it deletes
ShutdownCloses == DOMAIN sessions

ShutdownDeletes_None == {}

ShutdownDeletes == DOMAIN sessions

closeAllSessions ==
    /\ timerActive' = FALSE
    /\ objs' = CloseTransports({sessions[s].obj : s \in ShutdownCloses})
    /\ sessions' = MapDelete(sessions, ShutdownDeletes)
    /\ lastOp' = [Quiet EXCEPT !.op = "shutdown", !.timerWas = timerActive,
                    !.closed = {sessions[s].obj : s \in ShutdownCloses}]
    /\ UNCHANGED <<uuidCount, reqs, now>>
    /\ UNCHANGED fetchVars
    /\ UNCHANGED cacheVars
    /\ UNCHANGED toolVars
    /\ authOp' = NoAuthOp

\* new McpServer + registerAllTools + new StreamableHTTPServerTransport +
\* sessions.set; the result carries the store as createSession leaves it
createSession(sessionId) ==
    LET o == Len(objs) + 1 IN
    [ obj |-> o,
      sessions |-> MapSet(sessions, sessionId, [obj |-> o, lastAccessedAt |-> now]),
      objs |-> Append(objs, [sid |-> sessionId, tools |-> 1, connectCalls |-> 0,
                             connected |-> FALSE, closeCalls |-> 0]) ]

\* an unknown id gets a session of its own, under the id the client sent
getOrCreateSession_Recreate(sessionId) ==
    IF Truthy(sessionId) /\ sessionId \in DOMAIN sessions
    THEN [ ok |-> TRUE, isNew |-> FALSE, obj |-> sessions[sessionId].obj,
           sessions |-> [sessions EXCEPT ![sessionId].lastAccessedAt = now],
           objs |-> objs, uuidCount |-> uuidCount,
           status |-> 0, code |-> 0, message |-> "" ]
    ELSE LET c == createSession(IF Truthy(sessionId) THEN sessionId
                                ELSE randomUUID) IN
         [ ok |-> TRUE, isNew |-> TRUE, obj |-> c.obj,
           sessions |-> c.sessions, objs |-> c.objs,
           uuidCount |-> IF Truthy(sessionId) THEN uuidCount ELSE uuidCount + 1,
           status |-> 0, code |-> 0, message |-> "" ]

getOrCreateSession(sessionId) ==
    IF Truthy(sessionId) /\ sessionId \in DOMAIN sessions
    THEN [ ok |-> TRUE, isNew |-> FALSE, obj |-> sessions[sessionId].obj,
           sessions |-> [sessions EXCEPT ![sessionId].lastAccessedAt = now],
           objs |-> objs, uuidCount |-> uuidCount,
           status |-> 0, code |-> 0, message |-> "" ]
    ELSE IF Truthy(sessionId)
    THEN [ ok |-> FALSE, isNew |-> FALSE, obj |-> 0,
           sessions |-> sessions, objs |-> objs, uuidCount |-> uuidCount,
           status |-> 404, code |-> INTERNAL_ERROR,
           message |-> "Session not found or expired" ]
    ELSE LET c == createSession(randomUUID) IN
         [ ok |-> TRUE, isNew |-> TRUE, obj |-> c.obj,
           sessions |-> c.sessions, objs |-> c.objs,
           uuidCount |-> uuidCount + 1,
           status |-> 0, code |-> 0, message |-> "" ]

\* closes the transport but leaves the entry in the map
\* a delete that takes every session with it
deleteSession_All(sessionId) ==
    IF sessionId \in DOMAIN sessions
    THEN [ found |-> TRUE, closed |-> {sessions[s].obj : s \in DOMAIN sessions},
           sessions |-> << >>,
           objs |-> CloseTransports({sessions[s].obj : s \in DOMAIN sessions}) ]
    ELSE [ found |-> FALSE, closed |-> {}, sessions |-> sessions, objs |-> objs ]

deleteSession_KeepEntry(sessionId) ==
    IF sessionId \in DOMAIN sessions
    THEN [ found |-> TRUE, closed |-> {sessions[sessionId].obj},
           sessions |-> sessions,
           objs |-> CloseTransports({sessions[sessionId].obj}) ]
    ELSE [ found |-> FALSE, closed |-> {}, sessions |-> sessions, objs |-> objs ]

\* reports success whether or not the id was in the map
deleteSession_AlwaysTrue(sessionId) ==
    IF sessionId \in DOMAIN sessions
    THEN [ found |-> TRUE, closed |-> {sessions[sessionId].obj},
           sessions |-> MapDelete(sessions, {sessionId}),
           objs |-> CloseTransports({sessions[sessionId].obj}) ]
    ELSE [ found |-> TRUE, closed |-> {}, sessions |-> sessions, objs |-> objs ]

deleteSession(sessionId) ==
    IF sessionId \in DOMAIN sessions
    THEN [ found |-> TRUE, closed |-> {sessions[sessionId].obj},
           sessions |-> MapDelete(sessions, {sessionId}),
           objs |-> CloseTransports({sessions[sessionId].obj}) ]
    ELSE [ found |-> FALSE, closed |-> {}, sessions |-> sessions, objs |-> objs ]

\* res.status(s).json(jsonRpcError(c, m)) / res.status(s).end()
Respond(res, s, c, m) ==
    [res EXCEPT !.status = s, !.code = c, !.message = m,
                !.headersSent = TRUE, !.writes = @ + 1]

\* writes the 500 without looking at res.headersSent
catchBlock_AlwaysWrite(res) ==
    Respond(res, 500, INTERNAL_ERROR, "Internal server error")

\* the catch block of handleMcpRequest
catchBlock(res) ==
    IF ~res.headersSent
    THEN Respond(res, 500, INTERNAL_ERROR, "Internal server error")
    ELSE res

\* server.connect(transport) is called on pair o
CallConnect(os, o) == [os EXCEPT ![o].connectCalls = @ + 1]

NeedsConnect_Never(result) == FALSE
NeedsConnect_Always(result) == TRUE

\* whether handleMcpRequest connects the session it got
NeedsConnect(result) == result.isNew

\* the DELETE branch of handleMcpRequest: sessionId && deleteSession(sessionId)
handleDelete(sessionId) ==
    IF Truthy(sessionId) THEN deleteSession(sessionId)
    ELSE [found |-> FALSE, closed |-> {}, sessions |-> sessions, objs |-> objs]

\* handleMcpRequest from its first line to its first await (or its return)
handleMcpRequest(method, sessionId) ==
    /\ BagCardinality(reqs) < MaxInFlight
    /\ (method # "DELETE" /\ ~Truthy(sessionId)) => uuidCount < MaxSessions
    /\ UNCHANGED <<now, timerActive>>
    /\ UNCHANGED fetchVars
    /\ UNCHANGED cacheVars
    /\ UNCHANGED toolVars
    /\ LET op == [Quiet EXCEPT !.method = method, !.header = sessionId] IN
       IF method = "DELETE"
       THEN LET d == handleDelete(sessionId) IN
            /\ sessions' = d.sessions
            /\ objs' = d.objs
            /\ uuidCount' = uuidCount
            /\ reqs' = reqs
            /\ lastOp' = [op EXCEPT !.op = "finished", !.closed = d.closed,
                 !.res = IF d.found THEN Respond(NewRes, 204, 0, "")
                         ELSE Respond(NewRes, 404, INTERNAL_ERROR,
                                      "Session not found")]
       ELSE LET result == getOrCreateSession(sessionId) IN
            /\ sessions' = result.sessions
            /\ uuidCount' = result.uuidCount
            /\ IF ~result.ok
               THEN /\ objs' = result.objs
                    /\ reqs' = reqs
                    /\ lastOp' = [op EXCEPT !.op = "finished",
                         !.res = Respond(NewRes, result.status, result.code,
                                         result.message)]
               ELSE /\ reqs' = reqs (+) SetToBag({Suspended(
                         IF NeedsConnect(result) THEN "connecting"
                         ELSE "dispatching", result.obj, result.isNew)})
                    /\ IF NeedsConnect(result)
                       THEN /\ objs' = CallConnect(result.objs, result.obj)
                            /\ lastOp' = [op EXCEPT !.op = "suspended",
                                 !.isNew = result.isNew,
                                 !.connectOn = result.obj]
                       ELSE /\ objs' = result.objs
                            /\ lastOp' = [op EXCEPT !.op = "suspended",
                                 !.isNew = result.isNew,
                                 !.handleOn = result.obj]

\* await session.server.connect(session.transport) resolves; the handler
\* goes on to call transport.handleRequest
ConnectResolved(r) ==
    /\ r.pc = "connecting"
    /\ objs' = [objs EXCEPT ![r.obj].connected = TRUE]
    /\ reqs' = (reqs (-) SetToBag({r})) (+) SetToBag({[r EXCEPT !.pc = "dispatching"]})
    /\ lastOp' = [Quiet EXCEPT !.op = "resumed", !.isNew = r.isNew,
                    !.handleOn = r.obj]
    /\ UNCHANGED <<sessions, uuidCount, now, timerActive>>
    /\ UNCHANGED fetchVars
    /\ UNCHANGED cacheVars
    /\ UNCHANGED toolVars
    /\ authOp' = NoAuthOp

\* the suspended request r finishes with response res
Finish(r, res, threw, wrote) ==
    /\ reqs' = reqs (-) SetToBag({r})
    /\ lastOp' = [Quiet EXCEPT !.op = "finished", !.isNew = r.isNew,
                    !.res = res, !.threw = threw, !.transportWrote = wrote]
    /\ UNCHANGED <<sessions, objs, uuidCount, now, timerActive>>
    /\ UNCHANGED fetchVars
    /\ UNCHANGED cacheVars
    /\ UNCHANGED toolVars
    /\ authOp' = NoAuthOp

\* connect rejects: control passes to the catch block
ConnectRejected(r) ==
    /\ r.pc = "connecting"
    /\ Finish(r, catchBlock(NewRes), TRUE, FALSE)

\* res as the transport leaves it when handleRequest settles: wrote says
\* whether the transport started the response (status line and headers)
TransportRes(wrote) == IF wrote THEN Respond(NewRes, 200, 0, "") ELSE NewRes

\* await transport.handleRequest resolves: handleMcpRequest returns
HandleRequestResolved(r, wrote) ==
    /\ r.pc = "dispatching"
    /\ Finish(r, TransportRes(wrote), FALSE, wrote)

\* transport.handleRequest rejects, before or after the transport started
\* the response: control passes to the catch block
HandleRequestRejected(r, wrote) ==
    /\ r.pc = "dispatching"
    /\ Finish(r, catchBlock(TransportRes(wrote)), TRUE, wrote)

\* ---------------------------------------------------------------------
\* cachedFetchJson.  An await suspends the caller; its continuation is put
\* on the microtask queue when the awaited promise settles and runs when it
\* reaches the head of the queue.

\* the synchronous body of InMemoryCache.get: the value read, and the store
\* after the lazy eviction
cacheGet_AlwaysMiss(url) == [value |-> Undefined, store |-> store]

cacheGet(url) ==
    IF url \notin DOMAIN store
    THEN [value |-> Undefined, store |-> store]
    ELSE IF now > store[url].expiresAt
    THEN [value |-> Undefined, store |-> MapDelete(store, {url})]
    ELSE [value |-> store[url].value, store |-> store]

cacheSet_KeepExpiry(url, value, options) ==
    LET ttl == IF options.has THEN options.ms ELSE DefaultTtl IN
    MapSet(store, url,
           [value |-> value,
            expiresAt |-> IF url \in DOMAIN store THEN store[url].expiresAt
                          ELSE now + ttl])

\* the synchronous body of InMemoryCache.set
cacheSet(url, value, options) ==
    LET ttl == IF options.has THEN options.ms ELSE DefaultTtl IN
    MapSet(store, url, [value |-> value, expiresAt |-> now + ttl])

\* setOptions = options?.ttlMs ? { ttlMs: options.ttlMs } : undefined
setOptions(opt) == IF opt.has /\ opt.ms # 0 THEN opt ELSE NoTtl

inflightGet_Blind(url) == 0

\* inflight.get(url): the pending request promise, 0 for undefined
inflightGet(url) == IF url \in DOMAIN inflight THEN inflight[url] ELSE 0

\* the entry is deleted after the await, outside any finally
finallyDelete_OnSuccessOnly(url, ok) ==
    IF ok THEN MapDelete(inflight, {url}) ELSE inflight

\* the ledger after the finally block of the caller that awaited its own
\* request (ok: the request resolved)
finallyDelete(url, ok) == MapDelete(inflight, {url})

\* the request for url that has not settled yet (0: none)
Unsettled(url) ==
    IF \E p \in DOMAIN promises :
          promises[p].url = url /\ promises[p].state = "pending"
    THEN CHOOSE p \in DOMAIN promises :
          promises[p].url = url /\ promises[p].state = "pending"
    ELSE 0

Task(kind, id) == [kind |-> kind, id |-> id]

\* cachedFetchJson(url, options) up to "await cache.get(url)": cache.get has
\* no await of its own, so it reads the store within the call
cachedFetchJson(c, url) ==
    /\ callers[c].pc = "idle"
    /\ \A d \in Callers : d < c => callers[d].pc # "idle"
    /\ LET g == cacheGet(url) IN
        /\ store' = g.store
        /\ callers' = [callers EXCEPT ![c] =
             [@ EXCEPT !.pc = "afterGet", !.url = url, !.cached = g.value,
                       !.seen = Unsettled(url)]]
    /\ mq' = Append(mq, Task("afterGet", c))
    /\ UNCHANGED <<inflight, promises, now>>
    /\ UNCHANGED gatewayVars
    /\ UNCHANGED cacheVars
    /\ UNCHANGED toolVars
    /\ UNCHANGED authVars

\* the caller resumes after "await cache.get": cache hit, join the pending
\* request, or start the request (fetchWithTimeout is called, the ledger
\* entry is set, and the caller awaits the request).  opt is the caller's
\* options argument, which only this last branch reads
AfterGet(c, opt) ==
    /\ mq # << >> /\ Head(mq) = Task("afterGet", c)
    /\ LET me == callers[c]
           pending == inflightGet(me.url)
           p == Len(promises) + 1 IN
       IF me.cached # Undefined
       THEN /\ callers' = [callers EXCEPT ![c] =
                 [@ EXCEPT !.pc = "done", !.kind = "value", !.value = me.cached,
                           !.cached = Undefined]]
            /\ UNCHANGED <<inflight, promises>>
       ELSE IF pending # 0
       THEN /\ callers' = [callers EXCEPT ![c] =
                 [@ EXCEPT !.pc = "joined", !.p = pending]]
            /\ UNCHANGED <<inflight, promises>>
       ELSE /\ promises' = Append(promises,
                 [url |-> me.url, owner |-> c, phase |-> "fetching",
                  state |-> "pending", value |-> Undefined,
                  error |-> "", opt |-> opt])
            /\ inflight' = MapSet(inflight, me.url, p)
            /\ callers' = [callers EXCEPT ![c] =
                 [@ EXCEPT !.pc = "awaitRequest", !.p = p]]
    /\ mq' = Tail(mq)
    /\ UNCHANGED <<store, now>>
    /\ UNCHANGED gatewayVars
    /\ UNCHANGED cacheVars
    /\ UNCHANGED toolVars
    /\ UNCHANGED authVars

\* the request promise p rejects with error e (its options are not read
\* again)
Reject(p, e) ==
    [promises EXCEPT ![p].state = "rejected", ![p].phase = "settled",
                     ![p].error = e, ![p].opt = NoTtl]

\* what fetchWithTimeout settled with: a response carries its status, a
\* rejection the reason (the abort of AbortSignal.timeout, a network error)
FetchOutcomes == {"response-ok", "response-503", "rejected"}
IsResponse(outcome) == outcome # "rejected"
StatusOf(outcome) == IF outcome = "response-ok" THEN "200" ELSE "503"
TimeoutError == "TimeoutError: The operation was aborted due to timeout"
SyntaxError == "SyntaxError: Unexpected token in JSON"

ResponseOk_Always(outcome) == TRUE

\* response.ok
ResponseOk(outcome) == outcome = "response-ok"

\* new Error(`${host} returned ${response.status}`)
HttpError(url, outcome) == Host(url) \o " returned " \o StatusOf(outcome)

\* fetchWithTimeout settles: a response (ok or not), or a rejection (the
\* timeout, a network error)
FetchSettles(p, outcome) ==
    /\ p \in DOMAIN promises /\ promises[p].phase = "fetching"
    /\ promises' = [promises EXCEPT ![p].phase = outcome]
    /\ mq' = Append(mq, Task("afterFetch", p))
    /\ UNCHANGED <<store, inflight, callers, now>>
    /\ UNCHANGED gatewayVars
    /\ UNCHANGED cacheVars
    /\ UNCHANGED toolVars
    /\ UNCHANGED authVars

\* the request resumes after "await fetchWithTimeout": throws on a rejection
\* and on !response.ok, else calls response.json()
AfterFetch(p) ==
    /\ mq # << >> /\ Head(mq) = Task("afterFetch", p)
    /\ IF IsResponse(promises[p].phase) /\ ResponseOk(promises[p].phase)
       THEN /\ promises' = [promises EXCEPT ![p].phase = "parsing"]
            /\ mq' = Tail(mq)
       ELSE /\ promises' = Reject(p,
                   IF IsResponse(promises[p].phase)
                   THEN HttpError(promises[p].url, promises[p].phase)
                   ELSE TimeoutError)
            /\ mq' = Append(Tail(mq), Task("afterRequest", promises[p].owner))
    /\ UNCHANGED <<store, inflight, callers, now>>
    /\ UNCHANGED gatewayVars
    /\ UNCHANGED cacheVars
    /\ UNCHANGED toolVars
    /\ UNCHANGED authVars

\* response.json() settles: the document (parsed), or a rejection (a body
\* that is no JSON)
JsonSettles(p, parsed) ==
    /\ p \in DOMAIN promises /\ promises[p].phase = "parsing"
    /\ promises' = [promises EXCEPT ![p].phase = "parsed",
                      ![p].value = IF parsed THEN p ELSE Undefined]
    /\ mq' = Append(mq, Task("afterJson", p))
    /\ UNCHANGED <<store, inflight, callers, now>>
    /\ UNCHANGED gatewayVars
    /\ UNCHANGED cacheVars
    /\ UNCHANGED toolVars
    /\ UNCHANGED authVars

\* the request resumes after "await response.json()": throws on a rejection,
\* else calls cache.set, which writes the store within the call
AfterJson(p) ==
    /\ mq # << >> /\ Head(mq) = Task("afterJson", p)
    /\ IF promises[p].value = Undefined
       THEN /\ promises' = Reject(p, SyntaxError)
            /\ mq' = Append(Tail(mq), Task("afterRequest", promises[p].owner))
            /\ store' = store
       ELSE /\ promises' = [promises EXCEPT ![p].phase = "stored",
                                            ![p].opt = NoTtl]
            /\ store' = cacheSet(promises[p].url, promises[p].value,
                                 setOptions(promises[p].opt))
            /\ mq' = Append(Tail(mq), Task("afterSet", p))
    /\ UNCHANGED <<inflight, callers, now>>
    /\ UNCHANGED gatewayVars
    /\ UNCHANGED cacheVars
    /\ UNCHANGED toolVars
    /\ UNCHANGED authVars

\* the request resumes after "await cache.set" and returns data: the request
\* promise resolves
AfterSet(p) ==
    /\ mq # << >> /\ Head(mq) = Task("afterSet", p)
    /\ promises' = [promises EXCEPT ![p].state = "resolved", ![p].phase = "settled"]
    /\ mq' = Append(Tail(mq), Task("afterRequest", promises[p].owner))
    /\ UNCHANGED <<store, inflight, callers, now>>
    /\ UNCHANGED gatewayVars
    /\ UNCHANGED cacheVars
    /\ UNCHANGED toolVars
    /\ UNCHANGED authVars

\* what a caller gets from the settled request promise p
Outcome(me, p) ==
    IF promises[p].state = "resolved"
    THEN [me EXCEPT !.pc = "done", !.kind = "value", !.value = promises[p].value]
    ELSE [me EXCEPT !.pc = "done", !.kind = "error", !.err = p]

\* the caller that started the request resumes after "await request": the
\* finally block runs, then the value is returned or the error rethrown
AfterRequest(c) ==
    /\ mq # << >> /\ Head(mq) = Task("afterRequest", c)
    /\ inflight' = finallyDelete(callers[c].url,
                                 promises[callers[c].p].state = "resolved")
    /\ callers' = [callers EXCEPT ![c] = Outcome(@, callers[c].p)]
    /\ mq' = Tail(mq)
    /\ UNCHANGED <<store, promises, now>>
    /\ UNCHANGED gatewayVars
    /\ UNCHANGED cacheVars
    /\ UNCHANGED toolVars
    /\ UNCHANGED authVars

\* a caller that returned the pending promise gets its outcome once the
\* promise has settled
JoinedSettles(c) ==
    /\ callers[c].pc = "joined"
    /\ promises[callers[c].p].state # "pending"
    /\ callers' = [callers EXCEPT ![c] = Outcome(@, callers[c].p)]
    /\ UNCHANGED <<store, inflight, promises, mq, now>>
    /\ UNCHANGED gatewayVars
    /\ UNCHANGED cacheVars
    /\ UNCHANGED toolVars
    /\ UNCHANGED authVars

\* the sweep timer of the cache: InMemoryCache.evictExpired
evictExpired ==
    /\ \E u \in DOMAIN store : now > store[u].expiresAt
    /\ store' = MapDelete(store, {u \in DOMAIN store : now > store[u].expiresAt})
    /\ UNCHANGED <<inflight, promises, callers, mq, now>>
    /\ UNCHANGED gatewayVars
    /\ UNCHANGED cacheVars
    /\ UNCHANGED toolVars
    /\ UNCHANGED authVars

\* ------------------------------------------- the authentication gate
\* auth/middleware.ts in front of the routes of app.ts.  A header value is
\* the sequence of its characters, with the token after the prefix kept as
\* one element; a scope claim is the sequence of its words and spaces.
AUTH_ERROR == -32000

PUBLIC_PATHS_WithMcp ==
    {"/health", "/.well-known/openid-configuration",
     "/.well-known/oauth-authorization-server",
     "/.well-known/oauth-protected-resource",
     "/authorize", "/token", "/register", "/logout", "/mcp"}

PUBLIC_PATHS ==
    {"/health", "/.well-known/openid-configuration",
     "/.well-known/oauth-authorization-server",
     "/.well-known/oauth-protected-resource",
     "/authorize", "/token", "/register", "/logout"}

\* req.path of the requests considered: the public paths, the MCP endpoint
\* as written and with a trailing slash, and paths next to a public one
Paths == PUBLIC_PATHS \cup {"/mcp", "/mcp/", "/health/", "/admin"}

\* app.all("/mcp", ...): the router matches with or without trailing slash
RoutesToMcp(path) == path \in {"/mcp", "/mcp/"}

BearerPrefix == <<"B", "e", "a", "r", "e", "r", " ">>
BearerLen == 7

\* s.startsWith(prefix) and s.slice(n)
StartsWith(s, prefix) ==
    Len(s) >= Len(prefix) /\ SubSeq(s, 1, Len(prefix)) = prefix
Slice(s, n) == SubSeq(s, n + 1, Len(s))

\* req.headers.authorization: undefined, or a string
NoAuthz == <<"<undefined>">>
TokenNames ==
    {"tok-azp", "tok-sub", "tok-anon", "tok-emptyazp", "tok-arrscope",
     "tok-noexp", "tok-expired", "tok-badsig", "tok-hs256", "tok-iss",
     "tok-aud"}
AuthzHeaders ==
    {NoAuthz, << >>, <<"B", "a", "s", "i", "c", " ", "dXNlcjpwYXNz">>,
     <<"b", "e", "a", "r", "e", "r", " ", "tok-azp">>,
     <<"B", "e", "a", "r", "e", "r", "tok-azp">>,
     BearerPrefix, BearerPrefix \o <<"not-a-jwt">>}
    \cup {BearerPrefix \o <<t>> : t \in TokenNames}

\* config.auth0.issuerUrl and config.auth0.audience
Issuer == "https://tenant.example/"
Audience == "https://weather.example/api"

StringClaim(chars) == [type |-> "string", chars |-> chars]
ArrayClaim == [type |-> "array", chars |-> << >>]

\* what each token is: how it is signed, and its payload (a claim that the
\* token does not carry is not in the payload's domain)
JwtOf(name) ==
    LET good == [sig |-> TRUE, alg |-> "RS256", iss |-> Issuer,
                 aud |-> Audience] IN
    CASE name = "tok-azp" ->
           [good EXCEPT !.sig = TRUE] @@
           [payload |-> [azp |-> "app-1", sub |-> "user-1", exp |-> 100,
                         scope |-> StringClaim(<<"read", " ", "write">>)]]
      [] name = "tok-sub" ->
           good @@ [payload |-> [sub |-> "user-1", exp |-> 100]]
      [] name = "tok-anon" ->
           good @@ [payload |-> [exp |-> 100, scope |-> StringClaim(<< >>)]]
      [] name = "tok-emptyazp" ->
           good @@ [payload |-> [azp |-> "", sub |-> "user-1", exp |-> 100,
                      scope |-> StringClaim(<<"read", " ", " ", "write">>)]]
      [] name = "tok-arrscope" ->
           good @@ [payload |-> [azp |-> "app-1", exp |-> 100,
                                 scope |-> ArrayClaim]]
      [] name = "tok-noexp" ->
           good @@ [payload |-> [azp |-> "app-2",
                                 scope |-> StringClaim(<<"read">>)]]
      [] name = "tok-expired" ->
           good @@ [payload |-> [azp |-> "app-1", exp |-> 0]]
      [] name = "tok-badsig" ->
           [good EXCEPT !.sig = FALSE] @@
           [payload |-> [azp |-> "app-1", exp |-> 100]]
      [] name = "tok-hs256" ->
           [good EXCEPT !.alg = "HS256"] @@
           [payload |-> [azp |-> "app-1", exp |-> 100]]
      [] name = "tok-iss" ->
           [good EXCEPT !.iss = "https://other.example/"] @@
           [payload |-> [azp |-> "app-1", exp |-> 100]]
      [] OTHER ->
           [good EXCEPT !.aud = "https://other.example/api"] @@
           [payload |-> [azp |-> "app-1", exp |-> 100]]

jwtVerify_AcceptAll(token) ==
    [ok |-> TRUE,
     payload |-> IF token \in {<<t>> : t \in TokenNames}
                 THEN JwtOf(token[1]).payload ELSE [sub |-> "nobody"]]

\* jwtVerify(token, JWKS, {issuer, audience, algorithms: ["RS256"]}): resolves
\* with the payload, or rejects
jwtVerify(token) ==
    IF token \notin {<<t>> : t \in TokenNames}
    THEN [ok |-> FALSE, payload |-> << >>]
    ELSE LET j == JwtOf(token[1]) IN
         [ok |-> /\ j.sig
                 /\ j.alg = "RS256"
                 /\ j.iss = Issuer
                 /\ j.aud = Audience
                 /\ ("exp" \in DOMAIN j.payload => j.payload.exp > now),
          payload |-> j.payload]

\* s.split(" ")
RECURSIVE SplitFrom(_, _)
SplitFrom(s, cur) ==
    IF s = << >> THEN <<cur>>
    ELSE IF Head(s) = " " THEN <<cur>> \o SplitFrom(Tail(s), << >>)
    ELSE SplitFrom(Tail(s), Append(cur, Head(s)))
Split(s) == SplitFrom(s, << >>)

UndefinedClaim == "<undefined>"

clientId_SubFirst(payload) ==
    IF "sub" \in DOMAIN payload THEN payload.sub
    ELSE IF "azp" \in DOMAIN payload THEN payload.azp
    ELSE "unknown"

\* payload.azp ?? payload.sub ?? "unknown"
clientId(payload) ==
    IF "azp" \in DOMAIN payload THEN payload.azp
    ELSE IF "sub" \in DOMAIN payload THEN payload.sub
    ELSE "unknown"

\* typeof payload.scope === "string" ? payload.scope.split(" ") : []
scopes(payload) ==
    IF "scope" \in DOMAIN payload /\ payload.scope.type = "string"
    THEN Split(payload.scope.chars)
    ELSE << >>

\* req.auth: not set, or the AuthInfo built from the payload
NoAuth == [attached |-> FALSE]
AuthInfo(token, payload) ==
    [attached |-> TRUE,
     token |-> token,
     clientId |-> clientId(payload),
     scopes |-> scopes(payload),
     expiresAt |-> IF "exp" \in DOMAIN payload THEN payload.exp
                   ELSE UndefinedClaim]

\* the middleware returned by jwtAuth(), for one request: whether next() was
\* called, whether jwtVerify was called, req.auth when next() was called and
\* at the end, and the response the middleware wrote
jwtAuth(path, authz) ==
    IF path \in PUBLIC_PATHS
    THEN [decision |-> "public", next |-> TRUE, verifyCalled |-> FALSE,
          authAtNext |-> NoAuth, auth |-> NoAuth, res |-> NewRes]
    ELSE IF authz = NoAuthz \/ authz = << >> \/ ~StartsWith(authz, BearerPrefix)
    THEN [decision |-> "no-bearer", next |-> FALSE, verifyCalled |-> FALSE,
          authAtNext |-> NoAuth, auth |-> NoAuth,
          res |-> Respond(NewRes, 401, AUTH_ERROR,
                          "Missing or invalid Authorization header")]
    ELSE LET token == Slice(authz, BearerLen)
             v == jwtVerify(token) IN
         IF v.ok
         THEN [decision |-> "verified", next |-> TRUE, verifyCalled |-> TRUE,
               authAtNext |-> AuthInfo(token, v.payload),
               auth |-> AuthInfo(token, v.payload), res |-> NewRes]
         ELSE [decision |-> "bad-token", next |-> FALSE, verifyCalled |-> TRUE,
               authAtNext |-> NoAuth, auth |-> NoAuth,
               res |-> Respond(NewRes, 401, AUTH_ERROR,
                               "Invalid or expired token")]

\* the gate's decision on a request, kept with the request it was about
GateOp(path, authz) ==
    jwtAuth(path, authz) @@ [path |-> path, authz |-> authz]

\* one request through the middleware alone
jwtAuthCall(path, authz) ==
    /\ authOp' = GateOp(path, authz)
    /\ UNCHANGED <<now, store, inflight, promises, callers, mq>>
    /\ UNCHANGED gatewayVars
    /\ UNCHANGED cacheVars
    /\ UNCHANGED toolVars

NextAuth == \E path \in Paths, authz \in AuthzHeaders : jwtAuthCall(path, authz)

SpecAuth == Init /\ [][NextAuth]_vars

\* how the call of next() ends for the middleware: it returns, or an
\* exception raised further down the chain comes out of it
NextOutcomes == {"returns", "throws"}

\* the middleware with its call of next(): the number of next() calls, the
\* response the middleware itself wrote, and whether the middleware's
\* promise rejects.  On a public path next() is called outside the try
\* block and its exception leaves the middleware; after a verified token it
\* is called inside the try block and its exception reaches the catch
\* block, which answers 401.
jwtAuthThenNext(path, authz, nextOutcome) ==
    LET g == jwtAuth(path, authz) IN
    IF ~g.next
    THEN g @@ [nextCalls |-> 0, nextThrew |-> FALSE, rejects |-> FALSE]
    ELSE IF nextOutcome = "returns"
    THEN g @@ [nextCalls |-> 1, nextThrew |-> FALSE, rejects |-> FALSE]
    ELSE IF g.decision = "public"
    THEN g @@ [nextCalls |-> 1, nextThrew |-> TRUE, rejects |-> TRUE]
    ELSE [g EXCEPT !.res = Respond(g.res, 401, AUTH_ERROR,
                                   "Invalid or expired token")]
         @@ [nextCalls |-> 1, nextThrew |-> TRUE, rejects |-> FALSE]

\* one request through the middleware and its call of next()
jwtAuthNextCall(path, authz, nextOutcome) ==
    /\ authOp' = jwtAuthThenNext(path, authz, nextOutcome)
                     @@ [path |-> path, authz |-> authz]
    /\ UNCHANGED <<now, store, inflight, promises, callers, mq>>
    /\ UNCHANGED gatewayVars
    /\ UNCHANGED cacheVars
    /\ UNCHANGED toolVars

NextGate ==
    \E path \in Paths, authz \in AuthzHeaders, o \in NextOutcomes :
        jwtAuthNextCall(path, authz, o)

SpecGate == Init /\ [][NextGate]_vars

\* one request through the application: the gate, then the route.  The gate
\* reads only the request before it awaits jwtVerify and touches only the
\* request and the response after it, so it is taken as one step at the
\* time it calls next() or answers; the MCP route then runs handleMcpRequest
\* within next().  Method and session header are read by handleMcpRequest
\* alone, so they are drawn where it runs.
AppPaths == {"/mcp", "/mcp/", "/health"}
AppAuthz == {NoAuthz, BearerPrefix \o <<"tok-azp">>,
             BearerPrefix \o <<"tok-expired">>}
AppHeaders == {NoHeader} \cup IssuedIds
appRequest(path, authz) ==
    /\ authOp' = GateOp(path, authz)
    /\ IF jwtAuth(path, authz).next /\ RoutesToMcp(path)
       THEN \E method \in Methods, sessionId \in AppHeaders :
               handleMcpRequest(method, sessionId)
       ELSE /\ lastOp' = Quiet
            /\ UNCHANGED <<sessions, objs, uuidCount, reqs, timerActive, now>>
            /\ UNCHANGED fetchVars
            /\ UNCHANGED cacheVars
            /\ UNCHANGED toolVars

NextApp ==
    \/ \E path \in AppPaths, a \in AppAuthz : appRequest(path, a)
    \/ \E r \in Reqs : ConnectResolved(r)
    \/ \E r \in Reqs : ConnectRejected(r)
    \/ \E r \in Reqs, w \in BOOLEAN : HandleRequestResolved(r, w)
    \/ \E r \in Reqs, w \in BOOLEAN : HandleRequestRejected(r, w)
    \/ Tick

SpecApp == Init /\ [][NextApp]_vars

\* ------------------------------------------------ direct cache calls
\* The methods of InMemoryCache called on their own (get, has, set, size and
\* the sweep timer), with the cache as the only state that moves.  Each body
\* has no await before its last statement, so each call is one step.
Docs == {1, 2}
DirectTtlOptions == {NoTtl} \cup {[has |-> TRUE, ms |-> t] : t \in {0, 1, 2}}

\* what the previous direct call was, for the next one to be read against
PrevOf(op) == IF op.op = "set" THEN <<"set", op.key, op.value>> ELSE <<op.op>>

\* cache.get(key)
cacheGetCall(key) ==
    /\ LET g == cacheGet(key) IN
        /\ store' = g.store
        /\ cacheOp' = [op |-> "get", key |-> key, value |-> g.value,
                       hit |-> g.value # Undefined, ttl |-> 0,
                       prev |-> PrevOf(cacheOp)]
    /\ UNCHANGED <<inflight, promises, callers, mq, now>>
    /\ UNCHANGED gatewayVars
    /\ UNCHANGED authVars
    /\ UNCHANGED toolVars

\* cache.has(key): (await this.get(key)) !== undefined
cacheHasCall(key) ==
    /\ LET g == cacheGet(key) IN
        /\ store' = g.store
        /\ cacheOp' = [op |-> "has", key |-> key, value |-> Undefined,
                       hit |-> g.value # Undefined, ttl |-> 0,
                       prev |-> PrevOf(cacheOp)]
    /\ UNCHANGED <<inflight, promises, callers, mq, now>>
    /\ UNCHANGED gatewayVars
    /\ UNCHANGED authVars
    /\ UNCHANGED toolVars

\* cache.set(key, value, options)
cacheSetCall(key, value, options) ==
    /\ store' = cacheSet(key, value, options)
    /\ cacheOp' = [op |-> "set", key |-> key, value |-> value,
                   hit |-> FALSE,
                   ttl |-> IF options.has THEN options.ms ELSE DefaultTtl,
                   prev |-> PrevOf(cacheOp)]
    /\ UNCHANGED <<inflight, promises, callers, mq, now>>
    /\ UNCHANGED gatewayVars
    /\ UNCHANGED authVars
    /\ UNCHANGED toolVars

\* the keys evictExpired deletes
ExpiredKeys == {u \in DOMAIN store : now > store[u].expiresAt}

\* cache.size(): evictExpired(), then store.size
cacheSizeCall ==
    /\ store' = MapDelete(store, ExpiredKeys)
    /\ cacheOp' = [op |-> "size", key |-> "",
                   value |-> Cardinality(DOMAIN store'),
                   hit |-> FALSE, ttl |-> 0, prev |-> PrevOf(cacheOp)]
    /\ UNCHANGED <<inflight, promises, callers, mq, now>>
    /\ UNCHANGED gatewayVars
    /\ UNCHANGED authVars
    /\ UNCHANGED toolVars

\* the sweep timer fires between two direct calls
cacheSweep ==
    /\ store' = MapDelete(store, ExpiredKeys)
    /\ cacheOp' = [op |-> "sweep", key |-> "", value |-> Undefined,
                   hit |-> FALSE, ttl |-> 0, prev |-> PrevOf(cacheOp)]
    /\ UNCHANGED <<inflight, promises, callers, mq, now>>
    /\ UNCHANGED gatewayVars
    /\ UNCHANGED authVars
    /\ UNCHANGED toolVars

NextCache ==
    \/ \E k \in Urls : cacheGetCall(k)
    \/ \E k \in Urls : cacheHasCall(k)
    \/ \E k \in Urls, v \in Docs, o \in DirectTtlOptions : cacheSetCall(k, v, o)
    \/ cacheSizeCall
    \/ cacheSweep
    \/ Tick

SpecCache == Init /\ [][NextCache]_vars

\* ------------------------------------------------------- tool handlers
\* The handlers registered by registerWeatherTool (get_weather) and
\* registerSevereWeatherTool (get_severe_weather).  A handler runs up to its
\* first await, is resumed when the awaited call settles, and ends by
\* returning a result or by rejecting its promise.  The upstream calls are
\* taken by what an awaited cachedFetchJson can settle with: a parsed
\* document, or one of the errors fetch.ts rejects with.
ToolNames == {"get_weather", "get_severe_weather"}
\* the schema admits non-empty strings only
Cities == {"Paris", "Atlantis"}
GeoUrl == "https://geo.example/search"
ForecastUrl == "https://wx.example/forecast"
AqUrl == "https://aq.example/air-quality"

\* new Error(message), and the TypeError of a property read on undefined or
\* null
Error(message) == [name |-> "Error", message |-> message]
TypeError(message) == [name |-> "TypeError", message |-> message]
\* what an awaited cachedFetchJson(url) rejects with: the Error of a response
\* that is not ok, the abort of AbortSignal.timeout, the SyntaxError of
\* response.json()
FetchErrors(url) ==
    {Error(HttpError(url, "response-503")),
     [name |-> "TimeoutError",
      message |-> "The operation was aborted due to timeout"],
     [name |-> "SyntaxError", message |-> "Unexpected token in JSON"]}

\* the JSON document null
JsonNull == [null |-> TRUE]
\* what an awaited cachedFetchJson(url) settles with, the upstream answering
\* with one of docs
Settled(url, docs) ==
    {[ok |-> TRUE, data |-> d, error |-> NoError] : d \in docs}
    \cup {[ok |-> FALSE, data |-> JsonNull, error |-> e] : e \in FetchErrors(url)}

\* GeoResult: one with admin1, one without
Paris == [name |-> "Paris", admin1 |-> "Ile-de-France", country |-> "France",
          latitude |-> 48, longitude |-> 2]
Quito == [name |-> "Quito", country |-> "Ecuador",
          latitude |-> -1, longitude |-> -78]
\* GeoResponse documents: null, no results property, no result, one result
GeoDocs == {JsonNull, [generationtime_ms |-> 1], [results |-> << >>],
            [results |-> <<Paris>>], [results |-> <<Quito>>]}

\* geocodeCity once its cachedFetchJson has settled: it throws what the
\* fetch threw or the TypeError of reading results of null, returns null
\* (found FALSE) when there is no result, and the first result otherwise
geocodeCity(settled) ==
    IF ~settled.ok
    THEN [threw |-> TRUE, error |-> settled.error, found |-> FALSE,
          location |-> NoLocation]
    ELSE IF settled.data = JsonNull
    THEN [threw |-> TRUE,
          error |-> TypeError("Cannot read properties of null (reading 'results')"),
          found |-> FALSE, location |-> NoLocation]
    ELSE IF "results" \notin DOMAIN settled.data \/ Len(settled.data.results) = 0
    THEN [threw |-> FALSE, error |-> NoError, found |-> FALSE,
          location |-> NoLocation]
    ELSE [threw |-> FALSE, error |-> NoError, found |-> TRUE,
          location |-> settled.data.results[1]]

\* Array.prototype.join
RECURSIVE Join(_, _)
Join(lines, sep) ==
    IF Len(lines) = 0 THEN ""
    ELSE IF Len(lines) = 1 THEN lines[1]
    ELSE lines[1] \o sep \o Join(Tail(lines), sep)

Abs(n) == IF n < 0 THEN -n ELSE n

\* the first entries of WMO_CODES
WMO_CODES == (0 :> "Clear sky") @@ (1 :> "Mainly clear")
             @@ (2 :> "Partly cloudy") @@ (3 :> "Overcast")

\* locationName of both formatters
LocationName(location) ==
    IF "admin1" \in DOMAIN location /\ location.admin1 # ""
    THEN location.name \o ", " \o location.admin1 \o ", " \o location.country
    ELSE location.name \o ", " \o location.country

\* WeatherResponse documents: a clear day, a day with a code WMO_CODES does
\* not list, and a document with neither current nor current_units
Units == [temperature_2m |-> "°F", apparent_temperature |-> "°F",
          relative_humidity_2m |-> "%", wind_speed_10m |-> "mp/h"]
WeatherDocs ==
    {[current |-> [temperature_2m |-> 70, relative_humidity_2m |-> 40,
                   apparent_temperature |-> 68, wind_speed_10m |-> 5,
                   wind_direction_10m |-> 180, weather_code |-> c],
      current_units |-> Units] : c \in {0, 4}}
    \cup {[error |-> TRUE, reason |-> "Latitude must be in range of -90 to 90"]}

\* formatWeatherReport: the report, or the TypeError of reading weather_code
\* of undefined
formatWeatherReport(location, weather) ==
    IF "current" \notin DOMAIN weather
    THEN [threw |-> TRUE,
          error |-> TypeError("Cannot read properties of undefined (reading 'weather_code')"),
          text |-> ""]
    ELSE LET current == weather.current
             current_units == weather.current_units
             condition ==
                 IF current.weather_code \in DOMAIN WMO_CODES
                 THEN WMO_CODES[current.weather_code]
                 ELSE "Unknown (code " \o ToString(current.weather_code) \o ")"
             lonDirection == IF location.longitude >= 0 THEN "E" ELSE "W"
             latDirection == IF location.latitude >= 0 THEN "N" ELSE "S"
         IN [threw |-> FALSE, error |-> NoError,
             text |-> Join(<<
                "Weather for " \o LocationName(location),
                "Coordinates: " \o ToString(Abs(location.latitude)) \o "°"
                    \o latDirection \o ", "
                    \o ToString(Abs(location.longitude)) \o "°" \o lonDirection,
                "",
                "Condition: " \o condition,
                "Temperature: " \o ToString(current.temperature_2m)
                    \o current_units.temperature_2m,
                "Feels like: " \o ToString(current.apparent_temperature)
                    \o current_units.apparent_temperature,
                "Humidity: " \o ToString(current.relative_humidity_2m)
                    \o current_units.relative_humidity_2m,
                "Wind: " \o ToString(current.wind_speed_10m) \o " "
                    \o current_units.wind_speed_10m \o " from "
                    \o ToString(current.wind_direction_10m) \o "°">>, "\n")]

HEAT_ADVISORY == 100
HEAT_WARNING == 110
AQI_ADVISORY == 101
AQI_WARNING == 151

\* SevereWeatherForecastResponse documents: a mild week, a hot day, and a
\* document without current.  Their daily arrays are empty and every value
\* but apparent_temperature is below its threshold.
SevereForecastDocs ==
    {[current |-> [apparent_temperature |-> a, temperature_2m |-> 70,
                   wind_speed_10m |-> 5, wind_gusts_10m |-> 8,
                   weather_code |-> 0],
      daily |-> [time |-> << >>]] : a \in {70, 102}}
    \cup {[error |-> TRUE, reason |-> "Latitude must be in range of -90 to 90"]}
\* SevereWeatherAQResponse documents: clean air, unhealthy air, and a
\* document without current
AqDocs ==
    {[current |-> [us_aqi |-> q, uv_index |-> 3]] : q \in {40, 160}}
    \cup {[error |-> TRUE, reason |-> "Latitude must be in range of -90 to 90"]}

\* alerts.sort by SEVERITY_RANK: stable, warnings, then watches, then
\* advisories
SortBySeverity(alerts) ==
    LET Of(sev) == SelectSeq(alerts, LAMBDA a : a.severity = sev)
    IN Of("Warning") \o Of("Watch") \o Of("Advisory")

\* evaluateAlerts on the documents above: the rule of the current apparent
\* temperature and the rule of the current air quality index are the ones
\* that can fire; reading a property of a missing current throws
evaluateAlerts(forecast, aq) ==
    IF "current" \notin DOMAIN forecast
    THEN [threw |-> TRUE,
          error |-> TypeError("Cannot read properties of undefined (reading 'apparent_temperature')"),
          alerts |-> << >>]
    ELSE IF "current" \notin DOMAIN aq
    THEN [threw |-> TRUE,
          error |-> TypeError("Cannot read properties of undefined (reading 'us_aqi')"),
          alerts |-> << >>]
    ELSE LET feels == forecast.current.apparent_temperature
             aqi == aq.current.us_aqi
             heat ==
                 IF feels >= HEAT_WARNING
                 THEN <<[category |-> "Heat", severity |-> "Warning",
                         headline |-> "Feels like " \o ToString(feels) \o "°F",
                         timeframe |-> "Now",
                         recommendation |-> "Limit outdoor activity, stay hydrated, check on vulnerable people"]>>
                 ELSE IF feels >= HEAT_ADVISORY
                 THEN <<[category |-> "Heat", severity |-> "Advisory",
                         headline |-> "Feels like " \o ToString(feels) \o "°F",
                         timeframe |-> "Now",
                         recommendation |-> "Stay hydrated, take frequent breaks in shade"]>>
                 ELSE << >>
             air ==
                 IF aqi >= AQI_WARNING
                 THEN <<[category |-> "Air Quality", severity |-> "Warning",
                         headline |-> "AQI " \o ToString(aqi) \o " (Unhealthy)",
                         timeframe |-> "Now",
                         recommendation |-> "Limit prolonged outdoor exertion, keep windows closed"]>>
                 ELSE IF aqi >= AQI_ADVISORY
                 THEN <<[category |-> "Air Quality", severity |-> "Advisory",
                         headline |-> "AQI " \o ToString(aqi) \o " (Unhealthy for Sensitive Groups)",
                         timeframe |-> "Now",
                         recommendation |-> "Sensitive individuals should limit outdoor activity"]>>
                 ELSE << >>
         IN [threw |-> FALSE, error |-> NoError,
             alerts |-> SortBySeverity(heat \o air)]

ALL_CATEGORIES == <<"Heat", "Cold", "Wind", "Precipitation", "Thunderstorm",
                    "Air Quality", "UV">>
\* String.prototype.toUpperCase on the severities and categories in use
ToUpperCase(s) ==
    CASE s = "Warning" -> "WARNING"
      [] s = "Watch" -> "WATCH"
      [] s = "Advisory" -> "ADVISORY"
      [] s = "Heat" -> "HEAT"
      [] s = "Air Quality" -> "AIR QUALITY"

\* Array.prototype.flatMap on sequences of sequences
RECURSIVE Flatten(_)
Flatten(ss) == IF Len(ss) = 0 THEN << >> ELSE ss[1] \o Flatten(Tail(ss))

\* formatSevereWeatherReport
formatSevereWeatherReport(location, alerts) ==
    LET head == <<"Severe Weather Summary for " \o LocationName(location), "">>
        Group(sev) == SelectSeq(alerts, LAMBDA a : a.severity = sev)
        AlertLines(a, label) ==
            <<"  " \o ToUpperCase(a.category) \o " " \o label \o ": "
                  \o a.headline \o " (" \o a.timeframe \o ")",
              "    -> " \o a.recommendation>>
        Section(sev) ==
            LET group == Group(sev)
                label == ToUpperCase(sev)
            IN IF Len(group) = 0 THEN << >>
               ELSE <<"=== " \o ToString(Len(group)) \o " " \o label
                          \o (IF Len(group) > 1 THEN "S" ELSE "") \o " ===">>
                    \o Flatten([i \in 1..Len(group) |-> AlertLines(group[i], label)])
                    \o <<"">>
        alerted == {alerts[i].category : i \in 1..Len(alerts)}
        clearCategories == SelectSeq(ALL_CATEGORIES, LAMBDA c : c \notin alerted)
        clear == IF Len(clearCategories) > 0
                 THEN <<"=== ALL CLEAR ===",
                        "  No alerts: " \o Join(clearCategories, ", ")>>
                 ELSE << >>
    IN IF Len(alerts) = 0
       THEN Join(head \o <<"=== ALL CLEAR ===",
                           "No active alerts or watches for the next 7 days.">>,
                 "\n")
       ELSE Join(head \o Section("Warning") \o Section("Watch")
                      \o Section("Advisory") \o clear, "\n")

TextBlock(text) == [type |-> "text", text |-> text]

\* the result of the branch taken when geocodeCity returned null
NoMatchResult(name, city) ==
    [content |-> <<TextBlock("Could not find a location matching \"" \o city
                             \o "\". Try a more specific "
                             \o (IF name = "get_weather" THEN "city"
                                 ELSE "location") \o " name.")>>]

\* the result of the last statement of the try block
ReportResult(report) == [content |-> <<TextBlock(report)>>]

\* error instanceof Error ? error.message : String(error); every error
\* above is an Error (a DOMException is one)
ErrorMessage(error) == error.message

\* the result the catch block returns
ErrorResult(name, city, error) ==
    [content |-> <<TextBlock("Error fetching "
                             \o (IF name = "get_weather" THEN "weather"
                                 ELSE "severe weather")
                             \o " for \"" \o city \o "\": "
                             \o ErrorMessage(error))>>,
     isError |-> TRUE]

\* how a run of the try block ends: by a throw, by the return of the
\* no-match branch, or by the return of the report
Thrown(error) ==
    [threw |-> TRUE, error |-> error, noMatch |-> FALSE,
     result |-> [content |-> << >>]]
Returned(result, noMatch) ==
    [threw |-> FALSE, error |-> NoError, noMatch |-> noMatch, result |-> result]

handlerEnds_NoCatch(call, outcome) ==
    IF outcome.threw
    THEN [call EXCEPT !.pc = "rejected", !.thrown = outcome.error]
    ELSE [call EXCEPT !.pc = "returned", !.noMatch = outcome.noMatch,
                      !.result = outcome.result]

\* try { ... } catch (error) { ... }: the handler returns what the try block
\* returned, or what the catch block makes of what it threw
handlerEnds(call, outcome) ==
    IF outcome.threw
    THEN [call EXCEPT !.pc = "returned", !.thrown = outcome.error,
                      !.result = ErrorResult(call.name, call.city, outcome.error)]
    ELSE [call EXCEPT !.pc = "returned", !.noMatch = outcome.noMatch,
                      !.result = outcome.result]

\* the protocol engine calls the handler of tool name with { city }; the
\* handler runs up to await geocodeCity(city)
toolHandler(t, name, city) ==
    /\ tools[t].pc \in {"idle", "returned"}
    /\ tools' = [tools EXCEPT ![t] = [NewToolCall EXCEPT !.pc = "geocoding",
                                                        !.name = name,
                                                        !.city = city]]
    /\ UNCHANGED <<now, gatewayVars, fetchVars, cacheVars, authVars>>

\* geocodeCity settles and the handler resumes: up to the next await when a
\* location was found, to its end otherwise
AfterGeocode(t, settled) ==
    /\ tools[t].pc = "geocoding"
    /\ LET call == tools[t]
           g == geocodeCity(settled)
       IN tools' = [tools EXCEPT ![t] =
              IF g.threw THEN handlerEnds(call, Thrown(g.error))
              ELSE IF ~g.found
              THEN handlerEnds(call,
                       Returned(NoMatchResult(call.name, call.city), TRUE))
              ELSE [call EXCEPT !.pc = "fetching", !.location = g.location]]
    /\ UNCHANGED <<now, gatewayVars, fetchVars, cacheVars, authVars>>

\* get_weather: fetchWeather settles, then formatWeatherReport
AfterFetchWeather(t, settled) ==
    /\ tools[t].pc = "fetching"
    /\ tools[t].name = "get_weather"
    /\ LET call == tools[t]
           report == formatWeatherReport(call.location, settled.data)
           outcome == IF ~settled.ok THEN Thrown(settled.error)
                      ELSE IF report.threw THEN Thrown(report.error)
                      ELSE Returned(ReportResult(report.text), FALSE)
       IN tools' = [tools EXCEPT ![t] = handlerEnds(call, outcome)]
    /\ UNCHANGED <<now, gatewayVars, fetchVars, cacheVars, authVars>>

\* Promise.all of fetchSevereWeatherData: both documents, or the rejection
\* that came first
PromiseAll(forecast, aq, first) ==
    IF forecast.ok /\ aq.ok THEN NoError
    ELSE IF ~forecast.ok /\ (aq.ok \/ first = "forecast") THEN forecast.error
    ELSE aq.error

\* get_severe_weather: fetchSevereWeatherData settles, then evaluateAlerts
\* and formatSevereWeatherReport
AfterFetchSevere(t, forecast, aq, first) ==
    /\ tools[t].pc = "fetching"
    /\ tools[t].name = "get_severe_weather"
    /\ LET call == tools[t]
           rejected == PromiseAll(forecast, aq, first)
           evaluated == evaluateAlerts(forecast.data, aq.data)
           outcome ==
               IF rejected # NoError THEN Thrown(rejected)
               ELSE IF evaluated.threw THEN Thrown(evaluated.error)
               ELSE Returned(ReportResult(
                        formatSevereWeatherReport(call.location,
                                                  evaluated.alerts)), FALSE)
       IN tools' = [tools EXCEPT ![t] = handlerEnds(call, outcome)]
    /\ UNCHANGED <<now, gatewayVars, fetchVars, cacheVars, authVars>>

NextTool ==
    \/ \E t \in ToolCalls, n \in ToolNames, c \in Cities : toolHandler(t, n, c)
    \/ \E t \in ToolCalls, s \in Settled(GeoUrl, GeoDocs) : AfterGeocode(t, s)
    \/ \E t \in ToolCalls, s \in Settled(ForecastUrl, WeatherDocs) :
          AfterFetchWeather(t, s)
    \/ \E t \in ToolCalls, f \in Settled(ForecastUrl, SevereForecastDocs),
          a \in Settled(AqUrl, AqDocs), first \in {"forecast", "aq"} :
          AfterFetchSevere(t, f, a, first)

SpecTool == Init /\ [][NextTool]_vars

NextFetch ==
    \/ \E c \in Callers, u \in Urls : cachedFetchJson(c, u)
    \/ \E c \in Callers, o \in TtlOptions : AfterGet(c, o)
    \/ \E p \in DOMAIN promises, o \in FetchOutcomes : FetchSettles(p, o)
    \/ \E p \in DOMAIN promises : AfterFetch(p)
    \/ \E p \in DOMAIN promises, ok \in BOOLEAN : JsonSettles(p, ok)
    \/ \E p \in DOMAIN promises : AfterJson(p)
    \/ \E p \in DOMAIN promises : AfterSet(p)
    \/ \E c \in Callers : AfterRequest(c)
    \/ \E c \in Callers : JoinedSettles(c)
    \/ evictExpired
    \/ Tick

SpecFetch == Init /\ [][NextFetch]_vars

Next ==
    \/ \E m \in Methods, h \in Headers :
          handleMcpRequest(m, h) /\ authOp' = NoAuthOp
    \/ \E r \in Reqs : ConnectResolved(r)
    \/ \E r \in Reqs : ConnectRejected(r)
    \/ \E r \in Reqs, w \in BOOLEAN : HandleRequestResolved(r, w)
    \/ \E r \in Reqs, w \in BOOLEAN : HandleRequestRejected(r, w)
    \/ cleanupStaleSessions
    \/ closeAllSessions
    \/ Tick

Spec == Init /\ [][Next]_vars

\* The gateway with a sweep timer that keeps firing: no shutdown, the
\* setInterval callback runs again and again, and the clock keeps advancing.
\* Requests arrive up to time MaxTime; the clock runs on to Horizon, far
\* enough for the last session touched to grow stale.
Horizon == MaxTime + SessionTtl + 1
TickOn ==
    /\ now >= MaxTime
    /\ now < Horizon
    /\ now' = now + 1
    /\ lastOp' = Quiet
    /\ cacheOp' = NoCacheOp
    /\ authOp' = NoAuthOp
    /\ UNCHANGED <<sessions, objs, uuidCount, reqs, timerActive>>
    /\ UNCHANGED fetchVars
    /\ UNCHANGED toolVars

NextSweeping ==
    \/ \E m \in Methods, h \in Headers :
          now <= MaxTime /\ handleMcpRequest(m, h) /\ authOp' = NoAuthOp
    \/ \E r \in Reqs : ConnectResolved(r)
    \/ \E r \in Reqs : ConnectRejected(r)
    \/ \E r \in Reqs, w \in BOOLEAN : HandleRequestResolved(r, w)
    \/ \E r \in Reqs, w \in BOOLEAN : HandleRequestRejected(r, w)
    \/ cleanupStaleSessions
    \/ Tick
    \/ TickOn

SpecSweeping ==
    /\ Init /\ [][NextSweeping]_vars
    /\ WF_vars(cleanupStaleSessions)
    /\ WF_vars(Tick)
    /\ WF_vars(TickOn)
\* ------------------------------------------------------------ properties
\* the 404 envelope of getOrCreateSession, the 404 of the DELETE branch, the
\* 204 of the DELETE branch and the 500 of the catch block, as written once
NotFoundRes ==
    [headersSent |-> TRUE, status |-> 404, code |-> -32603,
     message |-> "Session not found or expired", writes |-> 1]
DeleteNotFoundRes ==
    [headersSent |-> TRUE, status |-> 404, code |-> -32603,
     message |-> "Session not found", writes |-> 1]
DeletedRes ==
    [headersSent |-> TRUE, status |-> 204, code |-> 0, message |-> "",
     writes |-> 1]
InternalErrorRes ==
    [headersSent |-> TRUE, status |-> 500, code |-> -32603,
     message |-> "Internal server error", writes |-> 1]

\* the ids whose transport has been closed
ClosedIds == {objs[o].sid : o \in {i \in DOMAIN objs : objs[i].closeCalls > 0}}

\* objs with transport.close() called once more on the pairs in os
ClosedOnce(os) ==
    [o \in DOMAIN objs |->
        IF o \in os THEN [objs[o] EXCEPT !.closeCalls = objs[o].closeCalls + 1]
        ELSE objs[o]]

\* C1: a non-DELETE request whose session id is not in the session map is
\* answered 404 "Session not found or expired" in a JSON-RPC error envelope;
\* nothing is constructed, connect and handleRequest are not called, and the
\* session map stays as it was.
C1_UnknownIdStep ==
    (lastOp'.method = "POST" /\ Truthy(lastOp'.header)
        /\ lastOp'.header \notin DOMAIN sessions)
    => /\ lastOp'.op = "finished"
       /\ lastOp'.res = NotFoundRes
       /\ lastOp'.connectOn = 0 /\ lastOp'.handleOn = 0
       /\ sessions' = sessions
       /\ objs' = objs
       /\ uuidCount' = uuidCount
       /\ reqs' = reqs
C1_UnknownIdNotFound == [][C1_UnknownIdStep]_vars

\* C1 witness: with a live session in the map, a POST carrying an id the
\* server never issued has just been answered 404.
C1_Witness ==
    /\ lastOp.op = "finished" /\ lastOp.method = "POST"
    /\ lastOp.header = BogusId /\ lastOp.res.status = 404
    /\ DOMAIN sessions # {}

\* C2: a non-DELETE request without session header constructs exactly one
\* session (one server with its tools registered once, one transport, one
\* map entry under an id never used before), calls connect on it exactly
\* once and dispatches only after connect has resolved.
C2_SessionlessStep ==
    (lastOp'.method = "POST" /\ lastOp'.header = NoHeader)
    => LET o == Len(objs) + 1 IN
       /\ Len(objs') = o
       /\ \A i \in DOMAIN objs : objs'[i] = objs[i]
       /\ objs'[o].tools = 1 /\ objs'[o].connectCalls = 1
       /\ objs'[o].closeCalls = 0 /\ ~objs'[o].connected
       /\ objs'[o].sid \notin DOMAIN sessions
       /\ \A i \in DOMAIN objs : objs[i].sid # objs'[o].sid
       /\ DOMAIN sessions' = DOMAIN sessions \cup {objs'[o].sid}
       /\ sessions'[objs'[o].sid].obj = o
       /\ \A x \in DOMAIN sessions : sessions'[x] = sessions[x]
       /\ lastOp'.op = "suspended" /\ lastOp'.isNew
       /\ lastOp'.connectOn = o /\ lastOp'.handleOn = 0
       /\ reqs' = reqs (+) SetToBag({Suspended("connecting", o, TRUE)})
C2_DispatchAfterConnect ==
    (lastOp'.handleOn # 0 /\ lastOp'.isNew)
    => /\ lastOp'.op = "resumed"
       /\ objs'[lastOp'.handleOn].connectCalls = 1
       /\ objs'[lastOp'.handleOn].connected
C2_SessionlessCreatesOne ==
    [][C2_SessionlessStep /\ C2_DispatchAfterConnect]_vars

\* C2 witness: the request that created the second session has been
\* connected once and is being dispatched.
C2_Witness ==
    /\ lastOp.op = "resumed" /\ lastOp.isNew /\ lastOp.handleOn = 2
    /\ objs[2].connectCalls = 1 /\ objs[2].connected

\* C3: a request carrying the id of a live session is dispatched to that
\* session's transport without constructing anything and without calling
\* connect; over the life of a session id the construction count and the
\* connect count are 1.
C3_ReuseStep ==
    (lastOp'.method = "POST" /\ lastOp'.header \in DOMAIN sessions)
    => /\ lastOp'.op = "suspended" /\ ~lastOp'.isNew
       /\ lastOp'.handleOn = sessions[lastOp'.header].obj
       /\ lastOp'.connectOn = 0
       /\ objs' = objs
       /\ uuidCount' = uuidCount
       /\ DOMAIN sessions' = DOMAIN sessions
       /\ sessions'[lastOp'.header].obj = sessions[lastOp'.header].obj
C3_CountsStayOne ==
    /\ \A o \in DOMAIN objs : objs[o].connectCalls = 1 /\ objs[o].tools = 1
    /\ \A i, j \in DOMAIN objs : objs[i].sid = objs[j].sid => i = j
C3_ReuseNeverReconstructs == [][C3_ReuseStep]_vars /\ []C3_CountsStayOne

\* C3 witness: a second request for the same live session is dispatched
\* while an earlier one for it is still being dispatched.
C3_Witness ==
    /\ lastOp.op = "suspended" /\ lastOp.header \in DOMAIN sessions
    /\ lastOp.handleOn # 0
    /\ objs[lastOp.handleOn].connected
    /\ BagIn(Suspended("dispatching", lastOp.handleOn, FALSE), reqs)
    /\ CopiesIn(Suspended("dispatching", lastOp.handleOn, FALSE), reqs) = 2

\* C4: once the transport of a session id has been closed (by a DELETE, by
\* the sweep or by shutdown) the id is not in the map and never returns to
\* it, no second session is constructed under it, and every later non-DELETE
\* request carrying it is answered 404 without being dispatched.
C4_ClosedStep ==
    /\ \A s \in ClosedIds : s \notin DOMAIN sessions'
    /\ (lastOp'.method = "POST" /\ lastOp'.header \in ClosedIds)
       => /\ lastOp'.op = "finished"
          /\ lastOp'.res = NotFoundRes
          /\ lastOp'.handleOn = 0 /\ lastOp'.connectOn = 0
          /\ objs' = objs
C4_ClosedState ==
    /\ \A s \in ClosedIds : s \notin DOMAIN sessions
    /\ \A i, j \in DOMAIN objs : objs[i].sid = objs[j].sid => i = j
C4_ClosedIsTerminal == [][C4_ClosedStep]_vars /\ []C4_ClosedState

\* C4 witness: a POST carrying the id of a closed session has just been
\* answered 404.
C4_Witness ==
    /\ lastOp.op = "finished" /\ lastOp.method = "POST"
    /\ lastOp.header \in ClosedIds /\ lastOp.res.status = 404

\* C5: a DELETE for a live id closes that session's transport once, removes
\* the entry and answers 204; a DELETE for any other id, or without header,
\* answers 404 "Session not found", closes nothing and leaves the map as it
\* was; in both cases the handler returns with exactly one response.
C5_DeleteStep ==
    (lastOp'.method = "DELETE")
    => LET h == lastOp'.header IN
       /\ lastOp'.op = "finished" /\ ~lastOp'.threw
       /\ reqs' = reqs /\ uuidCount' = uuidCount
       /\ IF h \in DOMAIN sessions
          THEN /\ lastOp'.res = DeletedRes
               /\ lastOp'.closed = {sessions[h].obj}
               /\ objs' = ClosedOnce({sessions[h].obj})
               /\ objs'[sessions[h].obj].closeCalls = 1
               /\ sessions' = MapDelete(sessions, {h})
          ELSE /\ lastOp'.res = DeleteNotFoundRes
               /\ lastOp'.closed = {}
               /\ objs' = objs
               /\ sessions' = sessions
C5_TerminateIdempotent == [][C5_DeleteStep]_vars

\* C5 witness: a DELETE for an id whose session was already closed has just
\* been answered 404 while another session is live.
C5_Witness ==
    /\ lastOp.op = "finished" /\ lastOp.method = "DELETE"
    /\ lastOp.header \in ClosedIds /\ lastOp.res = DeleteNotFoundRes
    /\ DOMAIN sessions # {}

\* C6: a run of the sweep removes a session, closing its transport, if and
\* only if now - lastAccessedAt > TTL; every other session keeps its entry.
C6_SweepStep ==
    (lastOp'.op = "sweep")
    => /\ \A s \in DOMAIN sessions :
            (s \notin DOMAIN sessions')
            <=> (now - sessions[s].lastAccessedAt > SessionTtl)
       /\ \A s \in DOMAIN sessions' :
            s \in DOMAIN sessions /\ sessions'[s] = sessions[s]
       /\ lastOp'.closed =
            {sessions[s].obj : s \in DOMAIN sessions \ DOMAIN sessions'}
       /\ objs' = ClosedOnce(lastOp'.closed)
C6_SweepIffStrictlyStale == [][C6_SweepStep]_vars

\* C6 witness: a sweep has just removed one session and kept another whose
\* idle time is exactly the TTL.
C6_Witness ==
    /\ lastOp.op = "sweep" /\ lastOp.closed # {}
    /\ \E s \in DOMAIN sessions : now - sessions[s].lastAccessedAt = SessionTtl

\* C7: when connect or handleRequest throws, handleMcpRequest still returns;
\* it writes the 500 internal-error envelope if the response had not been
\* started and writes nothing if it had, so the request has one response.
C7_CatchStep ==
    /\ lastOp'.threw
       => /\ lastOp'.op = "finished"
          /\ lastOp'.res = IF lastOp'.transportWrote
                           THEN Respond(NewRes, 200, 0, "")
                           ELSE InternalErrorRes
          /\ sessions' = sessions /\ objs' = objs
    /\ lastOp'.res.writes <= 1
C7_ExceptionsAreCaught == [][C7_CatchStep]_vars

\* C7 witness: handleRequest threw after the transport had started the
\* response, and the response stands as the transport left it.
C7_Witness ==
    /\ lastOp.op = "finished" /\ lastOp.threw /\ lastOp.transportWrote
    /\ lastOp.res.status = 200 /\ lastOp.res.writes = 1

\* C8: closeAllSessions cancels the sweep timer, closes the transport of
\* every session in the map once and leaves the map empty; with an empty map
\* it changes nothing but the timer.
C8_ShutdownStep ==
    (lastOp'.op = "shutdown")
    => /\ ~timerActive'
       /\ sessions' = << >>
       /\ lastOp'.closed = {sessions[s].obj : s \in DOMAIN sessions}
       /\ objs' = ClosedOnce(lastOp'.closed)
       /\ \A o \in lastOp'.closed : objs'[o].closeCalls = 1
       /\ reqs' = reqs /\ uuidCount' = uuidCount
C8_ShutdownClosesAll == [][C8_ShutdownStep]_vars

\* C8 witness: a second closeAllSessions (the timer was already cancelled)
\* has just closed two sessions created after the first one.
C8_Witness ==
    /\ lastOp.op = "shutdown" /\ ~lastOp.timerWas
    /\ Cardinality(lastOp.closed) = 2
    /\ sessions = << >>

\* the callers that asked for the url of request p while p had not settled,
\* and the caller that started p
AskedDuring(p) ==
    {c \in Callers : callers[c].seen = p \/ promises[p].owner = c}

\* caller c has returned what request p settled with
GotOutcomeOf(c, p) ==
    IF promises[p].state = "resolved"
    THEN callers[c].kind = "value" /\ callers[c].value = promises[p].value
    ELSE /\ promises[p].state = "rejected"
         /\ callers[c].kind = "error" /\ callers[c].err = p

\* C9: at most one request per url is outstanding at any instant; a caller
\* that asks for a url while a request for it is outstanding starts no
\* request of its own, and every caller of that group returns the value the
\* one request resolved with, or throws the error it rejected with.
C9_State ==
    /\ \A p, q \in DOMAIN promises :
          (promises[p].url = promises[q].url
             /\ promises[p].state = "pending" /\ promises[q].state = "pending")
          => p = q
    /\ \A c \in Callers :
          callers[c].seen # 0
          => /\ \A q \in DOMAIN promises : promises[q].owner # c
             /\ callers[c].p \in {0, callers[c].seen}
    /\ \A p \in DOMAIN promises : \A c \in AskedDuring(p) :
          callers[c].pc = "done" => GotOutcomeOf(c, p)
C9_OneCallPerUrl == []C9_State

\* C9 witness: three callers asked for one url before its request settled,
\* one request was made, and all three have returned its document.
C9_Witness ==
    /\ Len(promises) = 1 /\ promises[1].state = "resolved"
    /\ Cardinality({c \in AskedDuring(1) :
          callers[c].pc = "done" /\ callers[c].kind = "value"
          /\ callers[c].value = promises[1].value}) >= 3

\* C10: the ledger maps a url to its request from the step that starts the
\* request until the continuation of the caller that started it, which runs
\* as soon as the request has settled, resolved or rejected; the entry is
\* inserted in the step that finds the ledger empty and starts the request,
\* no other step changes the ledger, and a caller that asks after a request
\* has failed does not join the failed request.
C10_State ==
    /\ \A p \in DOMAIN promises :
          promises[p].state = "pending"
          => /\ promises[p].url \in DOMAIN inflight
             /\ inflight[promises[p].url] = p
    /\ \A u \in DOMAIN inflight :
          LET p == inflight[u] IN
          /\ p \in DOMAIN promises /\ promises[p].url = u
          /\ promises[p].state # "pending"
             => \E i \in DOMAIN mq : mq[i] = Task("afterRequest", promises[p].owner)
C10_Inserted ==
    \E c \in Callers :
        LET u == callers[c].url
            p == Len(promises) + 1 IN
        /\ Head(mq) = Task("afterGet", c)
        /\ u \notin DOMAIN inflight
        /\ inflight' = MapSet(inflight, u, p)
        /\ promises' = Append(promises, promises'[p])
        /\ promises'[p].url = u /\ promises'[p].owner = c
        /\ promises'[p].state = "pending"
C10_Removed ==
    \E c \in Callers :
        LET u == callers[c].url IN
        /\ Head(mq) = Task("afterRequest", c)
        /\ u \in DOMAIN inflight
        /\ promises[inflight[u]].owner = c
        /\ promises[inflight[u]].state # "pending"
        /\ inflight' = MapDelete(inflight, {u})
        /\ promises' = promises
C10_Step ==
    /\ (inflight' # inflight \/ Len(promises') # Len(promises))
       => (mq # << >> /\ (C10_Inserted \/ C10_Removed))
    /\ \A c \in Callers :
          (callers[c].pc # "joined" /\ callers'[c].pc = "joined")
          => /\ inflight' = inflight
             /\ callers'[c].p = inflight[callers[c].url]
             /\ \/ promises[callers'[c].p].state = "pending"
                \/ callers[c].seen = callers'[c].p
C10_LedgerTracksCall == []C10_State /\ [][C10_Step]_vars

\* C10 witness: the first request for a url was rejected with a waiter
\* joined to it, owner and waiter have both thrown its error, and a later
\* caller has started a second request for the same url, now in the ledger.
C10_Witness ==
    /\ Len(promises) = 2
    /\ promises[1].url = promises[2].url
    /\ promises[1].state = "rejected" /\ promises[2].state = "pending"
    /\ inflight[promises[2].url] = 2
    /\ \E c \in Callers :
          /\ c # promises[1].owner /\ callers[c].p = 1
          /\ callers[c].pc = "done" /\ callers[c].kind = "error"
    /\ callers[promises[1].owner].pc = "done"

\* C11: a request that fails (a response that is not ok, a rejected fetch,
\* a body that is no JSON) rejects without having written to the cache: the
\* step that rejects it leaves the store as it was, the only steps that put
\* a value into the store belong to requests that then resolve, the error of
\* a response that is not ok is "<host> returned <status>", and a caller that
\* asks after the failure and misses the cache awaits a request that is
\* still outstanding, never the failed one.
C11_Step ==
    /\ \A p \in DOMAIN promises :
          /\ (promises[p].state = "pending" /\ promises'[p].state = "rejected")
             => /\ store' = store
                /\ promises[p].phase \in {"response-503", "rejected", "parsed"}
                /\ promises[p].phase = "response-503"
                   => promises'[p].error = Host(promises[p].url) \o " returned 503"
                /\ promises[p].phase = "rejected"
                   => promises'[p].error = TimeoutError
                /\ promises[p].phase = "parsed"
                   => /\ promises[p].value = Undefined
                      /\ promises'[p].error = SyntaxError
          /\ (promises[p].phase \in {"response-503", "rejected"}
                /\ promises'[p] # promises[p])
             => promises'[p].state = "rejected"
          /\ promises[p].phase = "stored" => promises'[p].state # "rejected"
          /\ promises[p].state = "rejected" => promises'[p] = promises[p]
    /\ \A u \in DOMAIN store' :
          (u \notin DOMAIN store \/ store'[u] # store[u])
          => \E p \in DOMAIN promises :
                /\ promises[p].url = u /\ promises[p].phase = "parsed"
                /\ promises[p].value # Undefined
                /\ promises'[p].phase = "stored"
                /\ store'[u].value = promises[p].value
    /\ \A c \in Callers :
          (callers[c].pc = "afterGet" /\ callers'[c].pc # "afterGet"
             /\ callers[c].cached = Undefined /\ callers[c].seen = 0)
          => /\ callers'[c].p \in DOMAIN promises'
             /\ promises'[callers'[c].p].state = "pending"
             /\ promises'[callers'[c].p].url = callers[c].url
C11_State ==
    \A p \in DOMAIN promises :
        /\ promises[p].state = "rejected"
           => \A c \in Callers :
                 (callers[c].pc = "done" /\ callers[c].p = p)
                 => callers[c].kind = "error" /\ callers[c].err = p
        /\ (promises[p].state = "pending" /\ promises[p].phase # "stored")
           => promises[p].url \notin DOMAIN store
C11_FailuresAreNotCached == [][C11_Step]_vars /\ []C11_State

\* C11 witness: the request for the geocoding url got a 503, its owner has
\* thrown "geo.example returned 503", the store has nothing for the url, and
\* the next caller has started a second request for it.
C11_Witness ==
    /\ Len(promises) = 2
    /\ promises[1].url = "https://geo.example/search"
    /\ promises[1].error = "geo.example returned 503"
    /\ callers[promises[1].owner].pc = "done"
    /\ callers[promises[1].owner].kind = "error"
    /\ promises[2].url = promises[1].url /\ promises[2].state = "pending"
    /\ promises[1].url \notin DOMAIN store

\* C12: a call that finds an entry for its url that cache.get does not
\* treat as expired takes the entry's value, leaves the store alone, and then
\* returns that value without starting a request and without touching the
\* ledger.
C12_Step ==
    \A c \in Callers :
        /\ (callers[c].pc = "idle" /\ callers'[c].pc = "afterGet")
           => LET u == callers'[c].url IN
              (u \in DOMAIN store /\ now <= store[u].expiresAt)
              => /\ callers'[c].cached = store[u].value
                 /\ callers'[c].cached # Undefined
                 /\ store' = store
                 /\ promises' = promises /\ inflight' = inflight
        /\ (callers[c].pc = "afterGet" /\ callers[c].cached # Undefined)
           => \/ callers'[c] = callers[c]
              \/ /\ callers'[c].pc = "done" /\ callers'[c].kind = "value"
                 /\ callers'[c].value = callers[c].cached
                 /\ callers'[c].p = 0
                 /\ promises' = promises /\ inflight' = inflight
C12_HitSkipsNetwork == [][C12_Step]_vars

\* C12 witness: one request was made and resolved; a caller that asked after
\* it had settled returned its document from the cache, and the ledger is
\* empty.
C12_Witness ==
    /\ Len(promises) = 1 /\ promises[1].state = "resolved"
    /\ inflight = << >>
    /\ \E c \in Callers :
          /\ callers[c].pc = "done" /\ callers[c].p = 0 /\ callers[c].seen = 0
          /\ callers[c].kind = "value" /\ callers[c].value = promises[1].value

\* C13: get and has see an entry if and only if now < expiresAt; from the
\* instant now = expiresAt on, get returns undefined and has returns false,
\* whether or not the entry is still in the store.
C13_Step ==
    (cacheOp'.op \in {"get", "has"})
    => LET k == cacheOp'.key
           visible == k \in DOMAIN store /\ now < store[k].expiresAt IN
       /\ cacheOp'.hit <=> visible
       /\ (cacheOp'.op = "get" /\ visible) => cacheOp'.value = store[k].value
       /\ (cacheOp'.op = "get" /\ ~visible) => cacheOp'.value = Undefined
C13_VisibleIffBeforeExpiry == [][C13_Step]_vars

\* What get and has do: they see an entry if and only if now <= expiresAt,
\* so the entry is still seen at the instant now = expiresAt; an entry they
\* do not see is deleted by the call.
C13_CodeStep ==
    (cacheOp'.op \in {"get", "has"})
    => LET k == cacheOp'.key
           seen == k \in DOMAIN store /\ now <= store[k].expiresAt IN
       /\ cacheOp'.hit <=> seen
       /\ cacheOp'.op = "get"
          => cacheOp'.value = IF seen THEN store[k].value ELSE Undefined
       /\ store' = IF seen THEN store ELSE MapDelete(store, {k})
C13_VisibleUntilAfterExpiry == [][C13_CodeStep]_vars

\* the instant the claim and the code differ on: an entry read at
\* now = expiresAt was returned
C13_BoundaryHit ==
    /\ cacheOp.op \in {"get", "has"} /\ cacheOp.hit
    /\ cacheOp.key \in DOMAIN store
    /\ store[cacheOp.key].expiresAt = now

\* C14 as stated: set(k, v, ttl) followed by get(k) with no time elapsed
\* returns v; get(k) once ttl has elapsed since the set (now >= expiresAt)
\* returns undefined; a later set for the key replaces value and expiry.
C14_SetReplaces ==
    (cacheOp'.op = "set")
    => /\ DOMAIN store' = DOMAIN store \cup {cacheOp'.key}
       /\ store'[cacheOp'.key] =
             [value |-> cacheOp'.value, expiresAt |-> now + cacheOp'.ttl]
       /\ \A u \in DOMAIN store \ {cacheOp'.key} : store'[u] = store[u]
C14_GetRightAfterSet ==
    (cacheOp'.op = "get" /\ cacheOp.op = "set" /\ cacheOp.key = cacheOp'.key)
    => cacheOp'.value = cacheOp.value
C14_StatedStep ==
    /\ C14_SetReplaces
    /\ C14_GetRightAfterSet
    /\ (cacheOp'.op = "get")
       => LET k == cacheOp'.key IN
          (k \in DOMAIN store /\ now >= store[k].expiresAt)
          => cacheOp'.value = Undefined
C14_Step ==
    /\ C14_SetReplaces
    /\ C14_GetRightAfterSet
    /\ (cacheOp'.op = "get")
       => LET k == cacheOp'.key IN
          /\ (k \in DOMAIN store /\ now > store[k].expiresAt)
             => cacheOp'.value = Undefined
          /\ (k \in DOMAIN store /\ now <= store[k].expiresAt)
             => cacheOp'.value = store[k].value
          /\ k \notin DOMAIN store => cacheOp'.value = Undefined
AllowlistedPaths ==
    {"/health", "/.well-known/openid-configuration",
     "/.well-known/oauth-authorization-server",
     "/.well-known/oauth-protected-resource",
     "/authorize", "/token", "/register", "/logout"}
VerifiableTokens ==
    {"tok-azp", "tok-sub", "tok-anon", "tok-emptyazp", "tok-arrscope",
     "tok-noexp"}
VerifiedHeaders == {BearerPrefix \o <<t>> : t \in VerifiableTokens}
HasBearerPrefix(h) ==
    /\ Len(h) >= 7
    /\ h[1] = "B" /\ h[2] = "e" /\ h[3] = "a" /\ h[4] = "r" /\ h[5] = "e"
    /\ h[6] = "r" /\ h[7] = " "
Unauthorized(message) ==
    [headersSent |-> TRUE, status |-> 401, code |-> -32000,
     message |-> message, writes |-> 1]

\* C15: a request to one of the eight allowlisted paths proceeds with no
\* credential and no token verification; a request to any other path whose
\* Authorization header is missing or does not start with "Bearer " is
\* answered 401 with code -32000 and does not proceed; a request to any other
\* path whose token fails verification is answered 401 with code -32000,
\* does not proceed and gets no identity.
C15_State ==
    (authOp.decision # "none")
    => /\ Cardinality(AllowlistedPaths) = 8
       /\ authOp.path \in AllowlistedPaths
          => /\ authOp.next /\ ~authOp.verifyCalled
             /\ authOp.res = NewRes
       /\ (authOp.path \notin AllowlistedPaths
             /\ (authOp.authz = NoAuthz \/ ~HasBearerPrefix(authOp.authz)))
          => /\ ~authOp.next /\ ~authOp.verifyCalled
             /\ authOp.res = Unauthorized("Missing or invalid Authorization header")
             /\ authOp.auth = NoAuth
       /\ (authOp.path \notin AllowlistedPaths
             /\ authOp.authz # NoAuthz /\ HasBearerPrefix(authOp.authz)
             /\ authOp.authz \notin VerifiedHeaders)
          => /\ ~authOp.next /\ authOp.verifyCalled
             /\ authOp.res = Unauthorized("Invalid or expired token")
             /\ authOp.auth = NoAuth /\ authOp.authAtNext = NoAuth
C15_GateDecides == []C15_State

\* C15 witness: a request to /mcp with a correctly signed token issued for
\* another audience was answered 401.
C15_Witness ==
    /\ authOp.decision = "bad-token" /\ authOp.path = "/mcp"
    /\ authOp.authz = BearerPrefix \o <<"tok-aud">>
    /\ authOp.res.status = 401 /\ ~authOp.next

\* C16: a request to the MCP endpoint without a successfully verified bearer
\* token leaves the session map, the engine/transport pairs and the requests
\* in flight as they were: it creates, refreshes, terminates and dispatches
\* nothing; whatever request does change them passed verification.
C16_Step ==
    /\ (authOp'.decision # "none" /\ RoutesToMcp(authOp'.path)
          /\ authOp'.authz \notin VerifiedHeaders)
       => /\ sessions' = sessions /\ objs' = objs
          /\ uuidCount' = uuidCount /\ reqs' = reqs
          /\ lastOp'.handleOn = 0 /\ lastOp'.connectOn = 0
          /\ lastOp'.closed = {}
    /\ (authOp'.decision # "none"
          /\ (sessions' # sessions \/ objs' # objs \/ reqs' # reqs
                \/ lastOp'.op # "none"))
       => /\ authOp'.authz \in VerifiedHeaders
          /\ authOp'.auth.attached
C16_GatewayBehindGate == [][C16_Step]_vars

\* C16 witness: with a session in the map that has been idle for a while, a
\* request to /mcp with an expired token has just been answered 401.
C16_Witness ==
    /\ authOp.decision = "bad-token" /\ authOp.path = "/mcp"
    /\ \E x \in DOMAIN sessions : sessions[x].lastAccessedAt < now

\* words joined with single spaces
RECURSIVE JoinSpaces(_)
JoinSpaces(ws) ==
    IF Len(ws) = 1 THEN ws[1] ELSE ws[1] \o <<" ">> \o JoinSpaces(Tail(ws))

\* C17: for a verified token the identity attached when next is called has
\* clientId = azp if the payload has it, else sub if it has it, else
\* "unknown"; scopes = the scope string cut at every single space (no part
\* holds a space, and the parts joined with spaces give the string back),
\* the empty list when there is no scope claim; expiresAt = exp; token = the
\* header after "Bearer ".
C17_State ==
    (authOp.decision = "verified")
    => LET a == authOp.authAtNext
           payload == JwtOf(a.token[1]).payload IN
       /\ authOp.next /\ a.attached /\ authOp.auth = a
       /\ authOp.authz = <<"B", "e", "a", "r", "e", "r", " ">> \o a.token
       /\ "azp" \in DOMAIN payload => a.clientId = payload.azp
       /\ ("azp" \notin DOMAIN payload /\ "sub" \in DOMAIN payload)
          => a.clientId = payload.sub
       /\ ("azp" \notin DOMAIN payload /\ "sub" \notin DOMAIN payload)
          => a.clientId = "unknown"
       /\ ("scope" \in DOMAIN payload /\ payload.scope.type = "string")
          => /\ Len(a.scopes) >= 1
             /\ JoinSpaces(a.scopes) = payload.scope.chars
             /\ \A i \in DOMAIN a.scopes : \A j \in DOMAIN a.scopes[i] :
                   a.scopes[i][j] # " "
       /\ "scope" \notin DOMAIN payload => a.scopes = << >>
       /\ a.expiresAt = IF "exp" \in DOMAIN payload THEN payload.exp
                        ELSE "<undefined>"
C17_IdentityFromPayload == []C17_State

\* C17 witness: a token with both azp and sub and the scope "read write"
\* was verified; the identity has the azp and the two scopes.
C17_Witness ==
    /\ authOp.decision = "verified"
    /\ authOp.authAtNext.token = <<"tok-azp">>
    /\ authOp.authAtNext.clientId = "app-1"
    /\ authOp.authAtNext.scopes = << <<"read">>, <<"write">> >>
    /\ authOp.authAtNext.expiresAt = 100
\* the text the catch block composes for tool name, argument city and
\* failure message
FailureText(name, city, message) ==
    "Error fetching "
    \o (IF name = "get_weather" THEN "weather" ELSE "severe weather")
    \o " for \"" \o city \o "\": " \o message

\* what can be thrown inside the try block: by geocoding, by an upstream
\* fetch, by evaluating or formatting the documents
ToolFailures ==
    FetchErrors(GeoUrl) \cup FetchErrors(ForecastUrl) \cup FetchErrors(AqUrl)
    \cup {TypeError("Cannot read properties of null (reading 'results')"),
          TypeError("Cannot read properties of undefined (reading 'weather_code')"),
          TypeError("Cannot read properties of undefined (reading 'apparent_temperature')"),
          TypeError("Cannot read properties of undefined (reading 'us_aqi')")}

\* C18: a tool handler never throws past its boundary.  No invocation ever
\* ends rejected, and an invocation in which geocoding, an upstream fetch
\* (HTTP 503, timeout, unparsable body) or the evaluation and formatting of
\* the documents threw has returned a result whose content is exactly one
\* text block carrying the failure message, with isError set to true.
C18_State ==
    \A t \in ToolCalls :
        LET call == tools[t] IN
        /\ call.pc # "rejected"
        /\ call.thrown # NoError =>
              /\ call.pc = "returned"
              /\ call.thrown \in ToolFailures
              /\ DOMAIN call.result = {"content", "isError"}
              /\ call.result.isError = TRUE
              /\ Len(call.result.content) = 1
              /\ call.result.content[1] =
                     [type |-> "text",
                      text |-> FailureText(call.name, call.city,
                                           call.thrown.message)]
\* a step in which the try block throws is the step in which the handler
\* returns
C18_Step ==
    \A t \in ToolCalls :
        (tools[t].pc \in {"geocoding", "fetching"} /\ tools'[t].thrown # NoError)
            => tools'[t].pc = "returned"
C18_HandlerNeverThrows == []C18_State /\ [][C18_Step]_vars

\* C18 witness: one invocation has returned the flagged result of an upstream
\* HTTP 503 on the forecast fetch, the other that of a formatting failure.
C18_Witness ==
    /\ tools[1].pc = "returned"
    /\ tools[1].thrown = Error("wx.example returned 503")
    /\ tools[1].result.content[1].text =
           "Error fetching weather for \"Paris\": wx.example returned 503"
    /\ tools[2].pc = "returned"
    /\ tools[2].name = "get_severe_weather"
    /\ tools[2].thrown.name = "TypeError"
    /\ tools[2].location = Quito

\* C19: when geocoding finds no matching location, the handler returns a
\* result that is flagged as an error and carries the "Could not find a
\* location matching ..." message.
C19_NoMatchIsFlagged ==
    \A t \in ToolCalls :
        LET call == tools[t] IN
        (call.pc = "returned" /\ call.noMatch) =>
            /\ Len(call.result.content) = 1
            /\ call.result.content[1].type = "text"
            /\ SubSeq(call.result.content[1].text, 1, 36)
                   = "Could not find a location matching \""
            /\ "isError" \in DOMAIN call.result
            /\ call.result.isError = TRUE

\* the no-match result as the handlers build it: the message, and no isError
\* property
C19_NoMatchUnflagged ==
    /\ tools[1].pc = "returned"
    /\ tools[1].noMatch
    /\ tools[1].name = "get_severe_weather"
    /\ tools[1].city = "Atlantis"
    /\ tools[1].result =
           [content |-> <<[type |-> "text",
                           text |-> "Could not find a location matching \"Atlantis\". Try a more specific location name."]>>]
\* the requests in flight that created the session they hold
Creators == {r \in Reqs : r.isNew}

\* C20: concurrent sessionless requests are not deduplicated.  However the
\* requests interleave, every sessionless request that was accepted has a
\* pair of its own under an id of its own: as many pairs were constructed as
\* ids were drawn, no two pairs share an id, each pair had connect called
\* exactly once, each map entry holds the pair made for its id, a pair
\* leaves the map only by being closed, and no two requests in flight hold
\* the same new session.
C20_State ==
    /\ Len(objs) = uuidCount
    /\ \A i, j \in DOMAIN objs : i # j => objs[i].sid # objs[j].sid
    /\ \A o \in DOMAIN objs :
          /\ objs[o].connectCalls = 1
          /\ objs[o].sid \in DOMAIN sessions \/ objs[o].closeCalls >= 1
    /\ \A id \in DOMAIN sessions : objs[sessions[id].obj].sid = id
    /\ \A r \in Creators : CopiesIn(r, reqs) = 1
\* a sessionless request arriving while another one is still connecting its
\* new session adds one entry and one pair, holds a pair nobody else holds,
\* and leaves the other's entry and pair as they were
C20_Step ==
    (/\ lastOp'.method = "POST" /\ ~Truthy(lastOp'.header)
     /\ \E r \in Creators : r.pc = "connecting")
    => /\ Cardinality(DOMAIN sessions') = Cardinality(DOMAIN sessions) + 1
       /\ Len(objs') = Len(objs) + 1
       /\ lastOp'.connectOn = Len(objs')
       /\ \A r \in Creators :
             /\ r.obj # lastOp'.connectOn
             /\ objs'[r.obj] = objs[r.obj]
             /\ objs[r.obj].sid \in DOMAIN sessions =>
                   /\ objs[r.obj].sid \in DOMAIN sessions'
                   /\ sessions'[objs[r.obj].sid] = sessions[objs[r.obj].sid]
C20_ConcurrentCreatesAreDistinct == []C20_State /\ [][C20_Step]_vars

\* C20 witness: two sessionless requests are in flight at once, both still
\* connecting, each holding its own pair under its own map entry.
C20_Witness ==
    /\ Suspended("connecting", 1, TRUE) \in Reqs
    /\ Suspended("connecting", 2, TRUE) \in Reqs
    /\ lastOp.method = "POST" /\ lastOp.header = NoHeader
    /\ DOMAIN sessions = {objs[1].sid, objs[2].sid}
    /\ sessions[objs[1].sid].obj = 1 /\ sessions[objs[2].sid].obj = 2
    /\ objs[1].sid # objs[2].sid

\* C21: every session stored in the map has had its engine connected to its
\* transport exactly once, at creation: no stored session is not yet
\* connected or never connected, and no request is dispatched to a stored
\* session whose connect has not completed.
C21_State ==
    \A id \in DOMAIN sessions :
        /\ objs[sessions[id].obj].connectCalls = 1
        /\ objs[sessions[id].obj].connected
C21_Step ==
    (lastOp'.handleOn # 0 /\ objs[lastOp'.handleOn].sid \in DOMAIN sessions')
        => objs'[lastOp'.handleOn].connected
C21_StoredSessionsAreConnected == []C21_State /\ [][C21_Step]_vars

\* the connect of the session created for a sessionless request threw, the
\* session stayed in the map, and a later request carrying its id has been
\* dispatched to its transport although connect never completed
C21_DispatchedUnconnected ==
    /\ lastOp.op = "suspended"
    /\ ~lastOp.isNew
    /\ lastOp.handleOn = 1
    /\ lastOp.header = objs[1].sid
    /\ lastOp.header \in DOMAIN sessions
    /\ objs[1].connectCalls = 1
    /\ ~objs[1].connected
    /\ reqs = SetToBag({Suspended("dispatching", 1, FALSE)})

\* C22: a non-DELETE request whose session header is present, the empty
\* string included, but names no live session gets the not-found failure,
\* and no session is created for it.
C22_Step ==
    (/\ lastOp'.method = "POST"
     /\ lastOp'.header # NoHeader
     /\ lastOp'.header \notin DOMAIN sessions)
    => /\ lastOp'.op = "finished"
       /\ lastOp'.res = NotFoundRes
       /\ sessions' = sessions
       /\ objs' = objs
       /\ uuidCount' = uuidCount
C22_PresentUnknownIsNotFound == [][C22_Step]_vars

\* a request with an empty session header has been given a new session
C22_EmptyHeaderCreates ==
    /\ lastOp.method = "POST"
    /\ lastOp.header = EmptyHeader
    /\ lastOp.op = "suspended"
    /\ lastOp.isNew
    /\ lastOp.connectOn = Len(objs)
    /\ objs[Len(objs)].sid \in DOMAIN sessions

\* C23: under a sweep timer that keeps firing and a clock that keeps
\* advancing, every session in the map is eventually removed from it with
\* its transport closed, unless it is removed earlier: sessions that get no
\* further request do not stay forever.
C23_IdleSessionsAreRemoved ==
    \A o \in 1..(MaxSessions + 1) :
        (o \in DOMAIN objs /\ objs[o].sid \in DOMAIN sessions)
            ~> (/\ o \in DOMAIN objs
                /\ objs[o].sid \notin DOMAIN sessions
                /\ objs[o].closeCalls = 1)

\* C23 witness: the sweep has just removed and closed a session that was
\* touched at the last moment a request could arrive and lay idle for longer
\* than the TTL.
C23_Witness ==
    /\ lastOp.op = "sweep"
    /\ now = Horizon
    /\ \E o \in lastOp.closed :
          /\ objs[o].sid \notin DOMAIN sessions
          /\ objs[o].closeCalls = 1

\* C24: a session entry leaves the map only through a DELETE for its own
\* id, through the sweep when it is idle beyond the TTL, or through
\* shutdown, and its transport is closed exactly once in that same step:
\* no removal without a close, no close of a session that stays in the
\* map, no transport closed twice.
C24_Step ==
    LET removed == DOMAIN sessions \ DOMAIN sessions'
        closedNow == {o \in DOMAIN objs :
                         objs'[o].closeCalls # objs[o].closeCalls}
    IN /\ \A id \in removed :
             /\ \/ /\ lastOp'.op = "finished"
                   /\ lastOp'.method = "DELETE"
                   /\ lastOp'.header = id
                \/ /\ lastOp'.op = "sweep"
                   /\ timerActive
                   /\ now - sessions[id].lastAccessedAt > SessionTtl
                \/ lastOp'.op = "shutdown"
             /\ objs[sessions[id].obj].closeCalls = 0
             /\ objs'[sessions[id].obj].closeCalls = 1
       /\ \A o \in closedNow :
             /\ objs[o].sid \in removed
             /\ sessions[objs[o].sid].obj = o
       /\ \A id \in DOMAIN sessions \cap DOMAIN sessions' :
             sessions'[id].obj = sessions[id].obj
C24_State ==
    \A o \in DOMAIN objs :
        /\ objs[o].closeCalls <= 1
        /\ objs[o].sid \in DOMAIN sessions => objs[o].closeCalls = 0
C24_RemovalIsClose == [][C24_Step]_vars /\ []C24_State

\* C24 witness: of two sessions, one has left the map through a DELETE for
\* its id with its transport closed once; the other is still in the map,
\* unclosed.
C24_Witness ==
    /\ lastOp.op = "finished" /\ lastOp.method = "DELETE"
    /\ Len(objs) = 2
    /\ \E a, b \in DOMAIN objs :
          /\ lastOp.header = objs[a].sid
          /\ objs[a].sid \notin DOMAIN sessions
          /\ objs[a].closeCalls = 1
          /\ objs[b].sid \in DOMAIN sessions
          /\ objs[b].closeCalls = 0

\* every pair outside mine, and every map entry of such a pair, is after the
\* step what it was before
C25_Others(mine) ==
    /\ \A o \in DOMAIN objs \ mine : objs'[o] = objs[o]
    /\ \A id \in DOMAIN sessions :
          sessions[id].obj \notin mine
              => /\ id \in DOMAIN sessions'
                 /\ sessions'[id] = sessions[id]

\* C25: operations on different session identifiers do not interfere.  A
\* request that resolves, creates or terminates a session, and a dispatch
\* that resumes or ends, leave every other session's map entry (pair and
\* lastAccessedAt), engine and transport, and connected state as they were.
C25_Step ==
    /\ (lastOp'.method # "") =>
          C25_Others({sessions[id].obj :
                         id \in DOMAIN sessions \cap {lastOp'.header}})
    /\ (lastOp'.op = "resumed") => C25_Others({lastOp'.handleOn})
    /\ (lastOp'.op = "finished" /\ lastOp'.method = "") => C25_Others({})
C25_DifferentSessionsDoNotInterfere == [][C25_Step]_vars

\* C25 witness: session A has been terminated at a later time than session
\* B was last touched, while a request on B is in flight; B is still in the
\* map under its pair, unclosed, with its timestamp.
C25_Witness ==
    /\ lastOp.op = "finished" /\ lastOp.method = "DELETE"
    /\ lastOp.res.status = 204
    /\ lastOp.header = objs[1].sid
    /\ Len(objs) = 2
    /\ objs[2].sid \in DOMAIN sessions
    /\ sessions[objs[2].sid] = [obj |-> 2, lastAccessedAt |-> 0]
    /\ now = 1
    /\ objs[2].connected /\ objs[2].closeCalls = 0
    /\ Suspended("dispatching", 2, TRUE) \in Reqs

\* the request whose continuation after response.json() runs next, if any
Storing == {p \in DOMAIN promises :
               /\ mq # << >> /\ Head(mq) = Task("afterJson", p)
               /\ promises[p].value # Undefined}

\* C26: when a fetch started with a ttlMs option succeeds, the entry stored
\* for the URL expires exactly ttlMs after the store, for every ttlMs >= 0,
\* and the cache default is used only when no ttlMs was supplied; the entry
\* is stored once, by the request, with the options of the caller that
\* started it.
C26_Step ==
    /\ \A p \in Storing :
          LET opt == promises[p].opt
              url == promises[p].url
          IN (promises'[p].phase = "stored") =>
                /\ url \in DOMAIN store'
                /\ store'[url].value = promises[p].value
                /\ store'[url].expiresAt
                       = now + (IF opt.has THEN opt.ms ELSE DefaultTtl)
    /\ \A url \in DOMAIN store' :
          (url \notin DOMAIN store \/ store'[url] # store[url])
              => \E p \in Storing : promises[p].url = url
C26_TtlOptionIsHonoured == [][C26_Step]_vars

\* what the code does: an option of 0 is stored under the default TTL
C26_ZeroTtlGetsDefault ==
    \A p \in Storing :
        (promises[p].opt = [has |-> TRUE, ms |-> 0]
            /\ promises'[p].phase = "stored")
        => store'[promises[p].url].expiresAt = now + DefaultTtl
C26_ZeroTtlStoredAsDefault == [][C26_ZeroTtlGetsDefault]_vars

\* C27: the sweep never closes the transport of a session while a dispatch
\* on that session is still in progress; a session with a request in flight
\* is not treated as idle.
C27_Step ==
    (lastOp'.op = "sweep") =>
        \A o \in lastOp'.closed :
            ~\E r \in Reqs : r.obj = o /\ r.pc = "dispatching"
C27_SweepSparesBusySessions == [][C27_Step]_vars

\* the sweep has closed and removed a session on whose transport a
\* handleRequest is still awaited
C27_ClosedWhileDispatching ==
    /\ lastOp.op = "sweep"
    /\ 1 \in lastOp.closed
    /\ objs[1].closeCalls = 1
    /\ objs[1].sid \notin DOMAIN sessions
    /\ Suspended("dispatching", 1, TRUE) \in Reqs

\* C28: when a sessionless request ends in the internal-error response
\* because connect or dispatch threw, the session constructed for it is not
\* left behind in the map.
C28_Step ==
    (/\ lastOp'.op = "finished" /\ lastOp'.threw /\ lastOp'.isNew
     /\ lastOp'.res.status = 500)
    => \A r \in Reqs :
          (r.isNew /\ r \notin BagToSet(reqs'))
              => objs[r.obj].sid \notin DOMAIN sessions'
C28_FailedCreateLeavesNoSession == [][C28_Step]_vars

\* connect threw for the only request there has been; the request got the
\* 500, and the session made for it is still in the map, never connected
\* and never closed
C28_LeftBehind ==
    /\ lastOp.op = "finished" /\ lastOp.threw /\ lastOp.isNew
    /\ lastOp.res.status = 500
    /\ reqs = EmptyBag
    /\ Len(objs) = 1
    /\ DOMAIN sessions = {objs[1].sid}
    /\ ~objs[1].connected
    /\ objs[1].closeCalls = 0

\* C29: in every state after closeAllSessions has returned the session map
\* is empty.
C29_State == ~timerActive => DOMAIN sessions = {}
C29_EmptyAfterShutdown == []C29_State

\* a request handled after closeAllSessions has created a session; the
\* sweep timer is cancelled, so nothing will close it
C29_CreatedAfterShutdown ==
    /\ ~timerActive
    /\ lastOp.op = "suspended" /\ lastOp.isNew
    /\ lastOp.method = "POST" /\ lastOp.header = NoHeader
    /\ objs[lastOp.connectOn].sid \in DOMAIN sessions
    /\ objs[lastOp.connectOn].closeCalls = 0

\* C30: for every request the middleware produces exactly one outcome:
\* either it calls next() exactly once and writes no response itself, or it
\* writes exactly one 401 response and never calls next(); never both and
\* never neither, also when what next() invokes fails.
C30_State ==
    (authOp.decision # "none")
    => \/ /\ authOp.nextCalls = 1
          /\ authOp.res = NewRes
       \/ /\ authOp.nextCalls = 0
          /\ authOp.res.writes = 1
          /\ authOp.res.status = 401
C30_OneOutcomeWhenNextReturns ==
    (authOp.decision # "none" /\ ~authOp.nextThrew)
    => \/ authOp.nextCalls = 1 /\ authOp.res = NewRes
       \/ authOp.nextCalls = 0 /\ authOp.res.writes = 1 /\ authOp.res.status = 401
====
